---- MODULE Spec2Model ----
(***************************************************************************)
(* The PICA command processor of src/video_core/command_processor.cpp:     *)
(* the register write path (WritePicaReg), the float-uniform loader        *)
(* (WriteUniformFloatReg) and the command-list walker                      *)
(* (ProcessCommandList).                                                   *)
(*                                                                         *)
(* A u32 is a tuple of four bytes, least significant first, so that the    *)
(* full 32-bit range is kept: <<b0, b1, b2, b3>> is                        *)
(* b0 + 2^8 b1 + 2^16 b2 + 2^24 b3.                                        *)
(***************************************************************************)
EXTENDS Integers, Sequences, FiniteSets, TLC

(***************************************************************************)
(* 32-bit words                                                            *)
(***************************************************************************)

\* The u32 written 0xb3b2b1b0.
U32(b3, b2, b1, b0) == <<b0, b1, b2, b3>>

ZeroWord == U32(0, 0, 0, 0)

\* a & b on bytes.
RECURSIVE ByteAnd(_, _)
ByteAnd(a, b) ==
    IF a = 0 \/ b = 0 THEN 0
    ELSE (a % 2) * (b % 2) + 2 * ByteAnd(a \div 2, b \div 2)

\* a | b on bytes.
ByteOr(a, b) == a + b - ByteAnd(a, b)

\* a & b, a | b, ~a on u32.
And32(a, b) == <<ByteAnd(a[1], b[1]), ByteAnd(a[2], b[2]), ByteAnd(a[3], b[3]), ByteAnd(a[4], b[4])>>
Or32(a, b) == <<ByteOr(a[1], b[1]), ByteOr(a[2], b[2]), ByteOr(a[3], b[3]), ByteOr(a[4], b[4])>>
Not32(a) == <<255 - a[1], 255 - a[2], 255 - a[3], 255 - a[4]>>

Lo16(w) == w[1] + 256 * w[2]
Hi16(w) == w[3] + 256 * w[4]

\* The u32 of a number below 2^31.
ToWord(n) ==
    <<n % 256, (n \div 256) % 256, (n \div 65536) % 256, (n \div 16777216) % 256>>

\* BitField<pos, bits, u32>::Value() of the word w (bits <= 30).
BitField(w, pos, bits) ==
    IF pos >= 16 THEN (Hi16(w) \div (2 ^ (pos - 16))) % (2 ^ bits)
    ELSE IF pos + bits <= 16 THEN (Lo16(w) \div (2 ^ pos)) % (2 ^ bits)
    ELSE (Lo16(w) \div (2 ^ pos)) + (Hi16(w) % (2 ^ (pos + bits - 16))) * (2 ^ (16 - pos))

\* w + 1 on u32 (wraps at 2^32).
Inc32(w) ==
    IF Lo16(w) < 65535 THEN <<(Lo16(w) + 1) % 256, (Lo16(w) + 1) \div 256, w[3], w[4]>>
    ELSE <<0, 0, (Hi16(w) + 1) % 256, ((Hi16(w) + 1) \div 256) % 256>>

\* w >= n for a number n below 2^16.
GE32(w, n) == Hi16(w) > 0 \/ Lo16(w) >= n

(***************************************************************************)
(* Sparse arrays: an array of the program is the function of its entries   *)
(* that differ from the element a zero-initialised array holds.            *)
(***************************************************************************)

Get(arr, k, dflt) == IF k \in DOMAIN arr THEN arr[k] ELSE dflt

Put(arr, k, v, dflt) ==
    IF v = dflt THEN [x \in DOMAIN arr \ {k} |-> arr[x]]
    ELSE [x \in DOMAIN arr \cup {k} |-> IF x = k THEN v ELSE arr[x]]

EmptyArr == [x \in {} |-> ZeroWord]

(***************************************************************************)
(* The register file.  The indices are those PICA_REG_INDEX yields for     *)
(* the fields the switch of WritePicaReg names; set_value[0..7] and        *)
(* set_word[0..7] are consecutive registers.                               *)
(***************************************************************************)

NUM_REGS == 768

REG_vs_default_attributes_index == 562
REG_vs_default_attributes_set_value == 563
REG_max_input_attrib_index == 578
REG_command_buffer_size == 568
REG_command_buffer_addr == 570
REG_command_buffer_trigger == 572
REG_gs_uniform_setup == 656
REG_gs_uniform_set_value == 657
REG_gs_program_offset == 667
REG_gs_program_set_word == 668
REG_vs_uniform_setup == 704
REG_vs_uniform_set_value == 705
REG_vs_program_offset == 715
REG_vs_program_set_word == 716
REG_gs_swizzle_offset == 677
REG_gs_swizzle_set_word == 678
REG_vs_swizzle_offset == 725
REG_vs_swizzle_set_word == 726
REG_gs_bool_uniforms == 640
REG_vs_bool_uniforms == 688

Units == {"vs", "gs"}

UniformSetupReg(unit) == IF unit = "vs" THEN REG_vs_uniform_setup ELSE REG_gs_uniform_setup
UniformSetValueReg(unit) ==
    IF unit = "vs" THEN REG_vs_uniform_set_value ELSE REG_gs_uniform_set_value
ProgramOffsetReg(unit) == IF unit = "vs" THEN REG_vs_program_offset ELSE REG_gs_program_offset
ProgramSetWordReg(unit) ==
    IF unit = "vs" THEN REG_vs_program_set_word ELSE REG_gs_program_set_word
SwizzleOffsetReg(unit) == IF unit = "vs" THEN REG_vs_swizzle_offset ELSE REG_gs_swizzle_offset
SwizzleSetWordReg(unit) ==
    IF unit = "vs" THEN REG_vs_swizzle_set_word ELSE REG_gs_swizzle_set_word

\* g_state.vs_float_regs_counter / gs_float_regs_counter and the staging buffers.
FloatRegsCounter(unit) ==
    IF unit = "vs" THEN "vs_float_regs_counter" ELSE "gs_float_regs_counter"
UniformWriteBuffer(unit) ==
    IF unit = "vs" THEN "vs_uniform_write_buffer" ELSE "gs_uniform_write_buffer"

\* regs.reg_array[id]
Reg(g, id) == Get(g.regs, id, ZeroWord)

\* Expand a 4-bit mask to 4-byte mask, e.g. 0b0101 -> 0x00FF00FF
expand_bits_to_bytes_reversed ==
    [m \in 0..15 |->
        U32(IF m % 2 = 1 THEN 255 ELSE 0, IF (m \div 2) % 2 = 1 THEN 255 ELSE 0,
            IF (m \div 4) % 2 = 1 THEN 255 ELSE 0, IF (m \div 8) % 2 = 1 THEN 255 ELSE 0)]
expand_bits_to_bytes ==
    [m \in 0..15 |->
        CASE m = 0 -> U32(0, 0, 0, 0)
          [] m = 1 -> U32(0, 0, 0, 255)
          [] m = 2 -> U32(0, 0, 255, 0)
          [] m = 3 -> U32(0, 0, 255, 255)
          [] m = 4 -> U32(0, 255, 0, 0)
          [] m = 5 -> U32(0, 255, 0, 255)
          [] m = 6 -> U32(0, 255, 255, 0)
          [] m = 7 -> U32(0, 255, 255, 255)
          [] m = 8 -> U32(255, 0, 0, 0)
          [] m = 9 -> U32(255, 0, 0, 255)
          [] m = 10 -> U32(255, 0, 255, 0)
          [] m = 11 -> U32(255, 0, 255, 255)
          [] m = 12 -> U32(255, 255, 0, 0)
          [] m = 13 -> U32(255, 255, 0, 255)
          [] m = 14 -> U32(255, 255, 255, 0)
          [] m = 15 -> U32(255, 255, 255, 255)]

\* A float24 is kept as the conversion that made it and the bits it was made from
\* (a u32 for either: the float32 pattern, or the raw number).
float24_FromFloat32(w) == [from |-> "float32", bits |-> w]
float24_FromRaw(r) == [from |-> "raw", bits |-> ToWord(r)]

\* The element of a zero-initialised uniform array (every component 0.0f).
ZeroVec4 ==
    [x |-> float24_FromFloat32(ZeroWord), y |-> float24_FromFloat32(ZeroWord),
     z |-> float24_FromFloat32(ZeroWord), w |-> float24_FromFloat32(ZeroWord)]

EmptyUniforms == [x \in {} |-> ZeroVec4]

\* setup.uniforms.b.size()
BoolUniformCapacity == 16

InitShaderSetup ==
    [uniforms_f |-> EmptyUniforms, uniforms_b |-> [k \in 0..(BoolUniformCapacity - 1) |-> FALSE],
     program_code |-> EmptyArr, program_code_dirty |-> FALSE,
     swizzle_data |-> EmptyArr, swizzle_data_dirty |-> FALSE]

\* g_state after construction: everything zero.
InitState ==
    [regs |-> EmptyArr,
     vs |-> InitShaderSetup,
     gs |-> InitShaderSetup,
     vs_float_regs_counter |-> 0,
     vs_uniform_write_buffer |-> <<ZeroWord, ZeroWord, ZeroWord, ZeroWord>>,
     gs_float_regs_counter |-> 0,
     gs_uniform_write_buffer |-> <<ZeroWord, ZeroWord, ZeroWord, ZeroWord>>,
     default_attr_counter |-> 0,
     default_attr_write_buffer |-> <<ZeroWord, ZeroWord, ZeroWord>>,
     input_default_attributes |-> EmptyUniforms,
     immediate |-> [input_vertex |-> EmptyUniforms, current_attribute |-> 0,
                    reset_geometry_pipeline |-> FALSE],
     cmd_list |-> [head_ptr |-> 0, current_ptr |-> 0, length |-> 0],
     primitive_assembler |-> [topology |-> "List", buffer |-> <<>>, buffer_index |-> 0,
                              strip_ready |-> FALSE]]

(***************************************************************************)
(* WriteUniformFloatReg                                                    *)
(***************************************************************************)

MaxFloatUniforms == 96

\* uniform_setup.IsFloat32() and uniform_setup.index of the register word.
IsFloat32(setupw) == BitField(setupw, 31, 1) = 1
UniformIndex(setupw) == BitField(setupw, 0, 7)

\* uniform_setup.index.Assign(v): bits 0..6 of the register.
AssignUniformIndex(setupw, v) ==
    <<(setupw[1] \div 128) * 128 + (v % 128), setupw[2], setupw[3], setupw[4]>>

\* The flush condition on the counter after the append.
FlushDue_anyMode3(counter, f32) == counter >= 3
FlushDue_exact(counter, f32) == (counter = 4 /\ f32) \/ (counter = 3 /\ ~f32)
FlushDue(counter, f32) == (counter >= 4 /\ f32) \/ (counter >= 3 /\ ~f32)

\* The bounds check on the destination index (the else branch is taken when it holds).
UniformIndexValid_inclusive(index) == index <= MaxFloatUniforms
UniformIndexValid(index) == ~(index >= MaxFloatUniforms)

\* uniform[3 - i] = float24::FromFloat32(buffer[i]) for i = 0..3 (buffer is 1-based here).
UniformFromFloat32_inOrder(buffer) ==
    [x |-> float24_FromFloat32(buffer[1]), y |-> float24_FromFloat32(buffer[2]),
     z |-> float24_FromFloat32(buffer[3]), w |-> float24_FromFloat32(buffer[4])]
UniformFromFloat32(buffer) ==
    [w |-> float24_FromFloat32(buffer[1]), z |-> float24_FromFloat32(buffer[2]),
     y |-> float24_FromFloat32(buffer[3]), x |-> float24_FromFloat32(buffer[4])]

\* The packed decode: four 24-bit raw values out of three words.
UniformFromPacked_zLow(buffer) ==
    [w |-> float24_FromRaw(BitField(buffer[1], 8, 24)),
     z |-> float24_FromRaw(BitField(buffer[2], 16, 16)),
     y |-> float24_FromRaw(BitField(buffer[2], 0, 16) * 256 + BitField(buffer[3], 24, 8)),
     x |-> float24_FromRaw(BitField(buffer[3], 0, 24))]
UniformFromPacked(buffer) ==
    [w |-> float24_FromRaw(BitField(buffer[1], 8, 24)),
     z |-> float24_FromRaw(BitField(buffer[1], 0, 8) * 65536 + BitField(buffer[2], 16, 16)),
     y |-> float24_FromRaw(BitField(buffer[2], 0, 16) * 256 + BitField(buffer[3], 24, 8)),
     x |-> float24_FromRaw(BitField(buffer[3], 0, 24))]

\* uniform_setup.index + 1 on a successful flush.
NextUniformIndex(index) == index + 1

WriteUniformFloatReg(g, unit, value) ==
    LET cf == FloatRegsCounter(unit)
        bf == UniformWriteBuffer(unit)
        buffer == [g[bf] EXCEPT ![g[cf] + 1] = value]
        counter == g[cf] + 1
        setupw == Reg(g, UniformSetupReg(unit))
        index == UniformIndex(setupw)
    IN  IF ~FlushDue(counter, IsFloat32(setupw))
        THEN [g EXCEPT ![cf] = counter, ![bf] = buffer]
        ELSE IF ~UniformIndexValid(index)
        THEN [g EXCEPT ![cf] = 0, ![bf] = buffer]
        ELSE LET uniform == IF IsFloat32(setupw) THEN UniformFromFloat32(buffer)
                            ELSE UniformFromPacked(buffer)
             IN  [g EXCEPT
                    ![cf] = 0,
                    ![bf] = buffer,
                    ![unit].uniforms_f = Put(@, index, uniform, ZeroVec4),
                    !.regs = Put(@, UniformSetupReg(unit),
                                 AssignUniformIndex(setupw, NextUniformIndex(index)),
                                 ZeroWord)]

(***************************************************************************)
(* WritePicaReg                                                            *)
(***************************************************************************)

\* The range check on the register id (the write is dropped when it fails).
IsValidReg_inclusive(id) == ~(id > NUM_REGS)
IsValidReg(id) == ~(id >= NUM_REGS)

\* (old_value & ~write_mask) | (value & write_mask)
MergeMasked_toggle(old_value, value, write_mask) ==
    LET bits == And32(value, write_mask)
    IN  And32(Or32(old_value, bits), Not32(And32(old_value, bits)))
MergeMasked(old_value, value, write_mask) ==
    Or32(And32(old_value, Not32(write_mask)), And32(value, write_mask))

\* regs.pipeline.command_buffer.GetSize(index) and GetPhysicalAddress(index), in bytes:
\* the registers hold the size and the address in units of 8 bytes.
GetSize(g, index) == 8 * BitField(Reg(g, REG_command_buffer_size + index), 0, 20)
GetPhysicalAddress(g, index) == 8 * BitField(Reg(g, REG_command_buffer_addr + index), 0, 28)

\* VideoCore::g_memory->GetPhysicalPointer(address) as a u32*: guest memory is the
\* word array mem, whose word k lies at physical address 4 k.
GetPhysicalPointer(address) == address \div 4

\* case command_buffer.trigger[index]
\* The same, but the word being read stays where it was.
CommandBufferTrigger_keepCursor(g, index) ==
    LET head_ptr == GetPhysicalPointer(GetPhysicalAddress(g, index))
    IN  [g EXCEPT !.cmd_list = [head_ptr |-> head_ptr, current_ptr |-> @.current_ptr,
                                length |-> GetSize(g, index) \div 4]]

CommandBufferTrigger(g, index) ==
    LET head_ptr == GetPhysicalPointer(GetPhysicalAddress(g, index))
    IN  [g EXCEPT !.cmd_list = [head_ptr |-> head_ptr, current_ptr |-> head_ptr,
                                length |-> GetSize(g, index) \div 4]]

\* !g_state.regs.pipeline.gs_unit_exclusive_configuration
REG_gs_unit_exclusive_configuration == 580
GsUnitShared_inverted(g) == Reg(g, REG_gs_unit_exclusive_configuration) # ZeroWord
GsUnitShared(g) == Reg(g, REG_gs_unit_exclusive_configuration) = ZeroWord

ProgramCodeLimit_wide(unit) == 4096
ProgramCodeLimit(unit) == IF unit = "vs" THEN 512 ELSE 4096

\* case vs.program.set_word[0..7] / gs.program.set_word[0..7]
ProgramSetWord(g, unit, value) ==
    LET offset == Reg(g, ProgramOffsetReg(unit))
        at == Lo16(offset)
    IN  IF GE32(offset, ProgramCodeLimit(unit)) THEN g
        ELSE LET g1 == [g EXCEPT ![unit].program_code = Put(@, at, value, ZeroWord),
                                 ![unit].program_code_dirty = TRUE]
                 g2 == IF unit = "vs" /\ GsUnitShared(g)
                       THEN [g1 EXCEPT !.gs.program_code = Put(@, at, value, ZeroWord),
                                       !.gs.program_code_dirty = TRUE]
                       ELSE g1
             IN  [g2 EXCEPT !.regs = Put(@, ProgramOffsetReg(unit), Inc32(offset), ZeroWord)]

\* g_state.vs.swizzle_data.size(), the same for both units.
SwizzleDataSize == 4096

\* case vs.swizzle_patterns.set_word[0..7] / gs.swizzle_patterns.set_word[0..7]
SwizzleSetWord(g, unit, value) ==
    LET offset == Reg(g, SwizzleOffsetReg(unit))
        at == Lo16(offset)
    IN  IF GE32(offset, SwizzleDataSize) THEN g
        ELSE LET g1 == [g EXCEPT ![unit].swizzle_data = Put(@, at, value, ZeroWord),
                                 ![unit].swizzle_data_dirty = TRUE]
                 g2 == IF unit = "vs" /\ GsUnitShared(g)
                       THEN [g1 EXCEPT !.gs.swizzle_data = Put(@, at, value, ZeroWord),
                                       !.gs.swizzle_data_dirty = TRUE]
                       ELSE g1
             IN  [g2 EXCEPT !.regs = Put(@, SwizzleOffsetReg(unit), Inc32(offset), ZeroWord)]

\* The same without the pending reset of the geometry pipeline.
DefaultAttributesIndex_noReset(g) ==
    [g EXCEPT !.immediate.current_attribute = 0,
              !.default_attr_counter = 0]

\* case vs_default_attributes_setup.index
DefaultAttributesIndex(g) ==
    [g EXCEPT !.immediate.current_attribute = 0,
              !.immediate.reset_geometry_pipeline = TRUE,
              !.default_attr_counter = 0]

\* The decode of the three staged words of a default attribute.
AttributeFromPacked(buffer) ==
    [w |-> float24_FromRaw(BitField(buffer[1], 8, 24)),
     z |-> float24_FromRaw(BitField(buffer[1], 0, 8) * 65536 + BitField(buffer[2], 16, 16)),
     y |-> float24_FromRaw(BitField(buffer[2], 0, 16) * 256 + BitField(buffer[3], 24, 8)),
     x |-> float24_FromRaw(BitField(buffer[3], 0, 24))]

\* regs.pipeline.max_input_attrib_index
MaxInputAttribIndex(g) == BitField(Reg(g, REG_max_input_attrib_index), 0, 4)

\* The flush test on the counter after the append.
AttributeFlushDue(counter) == counter >= 3

\* setup.index >= 16: the flush is refused.
MaxDefaultAttributes == 16
AttributeIndexValid(index) == ~GE32(index, MaxDefaultAttributes)

\* setup.index < 15: the attribute goes to the default-attribute table.
ImmediateIndex == 15
IsTableIndex_inclusive(index) == ~GE32(index, ImmediateIndex + 1)
IsTableIndex(index) == ~GE32(index, ImmediateIndex)

\* immediate_attribute_id < max_input_attrib_index: more attributes are to come.
ImmediateMore_inclusive(current_attribute, max) == current_attribute <= max
ImmediateMore(current_attribute, max) == current_attribute < max

\* The else branch of setup.index < 15: the attribute of the immediate vertex.
ImmediateAttribute(g, attribute) ==
    LET current_attribute == g.immediate.current_attribute
        g1 == [g EXCEPT !.immediate.input_vertex =
                          Put(@, current_attribute, attribute, ZeroVec4)]
    IN  IF ImmediateMore(current_attribute, MaxInputAttribIndex(g))
        THEN [g1 EXCEPT !.immediate.current_attribute = current_attribute + 1]
        ELSE [g1 EXCEPT !.immediate.current_attribute = 0,
                        !.immediate.reset_geometry_pipeline = FALSE]

\* case vs_default_attributes_setup.set_value[0..2]
DefaultAttributeSetValue(g, value) ==
    LET buffer == [g.default_attr_write_buffer EXCEPT ![g.default_attr_counter + 1] = value]
        counter == g.default_attr_counter + 1
        index == Reg(g, REG_vs_default_attributes_index)
        g1 == [g EXCEPT !.default_attr_write_buffer = buffer]
    IN  IF ~AttributeFlushDue(counter) THEN [g1 EXCEPT !.default_attr_counter = counter]
        ELSE LET g2 == [g1 EXCEPT !.default_attr_counter = 0]
                 attribute == AttributeFromPacked(buffer)
             IN  IF ~AttributeIndexValid(index) THEN g2
                 ELSE IF IsTableIndex(index)
                 THEN [g2 EXCEPT
                         !.input_default_attributes = Put(@, Lo16(index), attribute, ZeroVec4),
                         !.regs = Put(@, REG_vs_default_attributes_index, Inc32(index),
                                      ZeroWord)]
                 ELSE ImmediateAttribute(g2, attribute)

\* shader_unit.LoadInput, shader_engine->Run, shader_unit.WriteOutput: the output of
\* the vertex shader is kept as the input it was run on.
Run(input) == [shaded |-> input]

\* The collaborator calls of the set_value case: those of the vertex it completes.
\* The calls on completion of an immediate-mode vertex, with the draw issued before
\* the vertex is submitted.
ImmediateVertexCalls_drawFirst(g, input, debug) ==
    <<[call |-> "Run", input |-> input], [call |-> "NeedIndexInput"], [call |-> "Setup"],
      [call |-> "DrawTriangles"], [call |-> "SubmitVertex", output |-> Run(input)]>>

\* The calls on completion of an immediate-mode vertex: the vertex shader, the
\* geometry pipeline (Reconfigure when a reset is pending, the asserted
\* NeedIndexInput, which answers false, Setup, SubmitVertex) and the rasterizer.
ImmediateVertexCalls(g, input, debug) ==
    (IF debug THEN <<[call |-> "OnEvent", event |-> "VertexShaderInvocation",
                      id |-> REG_vs_default_attributes_set_value]>>
     ELSE <<>>)
    \o <<[call |-> "Run", input |-> input]>>
    \o (IF g.immediate.reset_geometry_pipeline THEN <<[call |-> "Reconfigure"]>> ELSE <<>>)
    \o <<[call |-> "NeedIndexInput"], [call |-> "Setup"],
         [call |-> "SubmitVertex", output |-> Run(input)],
         [call |-> "DrawTriangles"]>>
    \o (IF debug THEN <<[call |-> "OnEvent", event |-> "FinishedPrimitiveBatch",
                         id |-> REG_vs_default_attributes_set_value]>>
        ELSE <<>>)

DefaultAttributeCalls(g, value, debug) ==
    LET buffer == [g.default_attr_write_buffer EXCEPT ![g.default_attr_counter + 1] = value]
        index == Reg(g, REG_vs_default_attributes_index)
        current_attribute == g.immediate.current_attribute
        input == Put(g.immediate.input_vertex, current_attribute,
                     AttributeFromPacked(buffer), ZeroVec4)
    IN  IF /\ AttributeFlushDue(g.default_attr_counter + 1)
           /\ AttributeIndexValid(index)
           /\ ~IsTableIndex(index)
           /\ ~ImmediateMore(current_attribute, MaxInputAttribIndex(g))
        THEN ImmediateVertexCalls(g, input, debug)
        ELSE <<>>

\* The primitive assembler: its class is not part of this file.  Its topology, its
\* buffer of two vertices, buffer_index and strip_ready; Reset drops what is
\* buffered, Reconfigure resets and takes the topology.
REG_triangle_topology == 606
REG_restart_primitive == 607

TriangleTopology(g) ==
    <<"List", "Strip", "Fan", "Shader">>[BitField(Reg(g, REG_triangle_topology), 8, 2) + 1]

AssemblerReset(pa) == [pa EXCEPT !.buffer = <<>>, !.buffer_index = 0, !.strip_ready = FALSE]

AssemblerReconfigure(pa, topology) == [AssemblerReset(pa) EXCEPT !.topology = topology]

IsEmpty(pa) == pa.buffer_index = 0 /\ ~pa.strip_ready

\* The vertices the assembler holds for the triangles to come.
Buffered(pa) == IF pa.strip_ready THEN 2 ELSE pa.buffer_index

BufferPut(buffer, k, vtx) ==
    [x \in DOMAIN buffer \cup {k} |-> IF x = k THEN vtx ELSE buffer[x]]

AssemblerSubmit_fan(pa, vtx) ==
    IF pa.topology \in {"List", "Shader"}
    THEN IF pa.buffer_index < 2
         THEN [pa |-> [pa EXCEPT !.buffer = BufferPut(@, pa.buffer_index + 1, vtx),
                                 !.buffer_index = @ + 1],
               triangles |-> <<>>]
         ELSE [pa |-> [pa EXCEPT !.buffer = <<>>, !.buffer_index = 0],
               triangles |-> <<<<pa.buffer[1], pa.buffer[2], vtx>>>>]
    ELSE [pa |-> [pa EXCEPT !.buffer = BufferPut(@, pa.buffer_index + 1, vtx),
                            !.strip_ready = @ \/ pa.buffer_index = 1,
                            !.buffer_index = 1],
          triangles |-> IF pa.strip_ready THEN <<<<pa.buffer[1], pa.buffer[2], vtx>>>>
                        ELSE <<>>]

\* SubmitVertex(vtx, triangle_handler): the assembler after it, and the triangles
\* handed to triangle_handler.  List and Shader buffer two vertices and emit with
\* the third; Strip and Fan emit with every vertex once two are buffered, Strip
\* replacing the two in turn and Fan the second only.
AssemblerSubmit(pa, vtx) ==
    IF pa.topology \in {"List", "Shader"}
    THEN IF pa.buffer_index < 2
         THEN [pa |-> [pa EXCEPT !.buffer = BufferPut(@, pa.buffer_index + 1, vtx),
                                 !.buffer_index = @ + 1],
               triangles |-> <<>>]
         ELSE [pa |-> [pa EXCEPT !.buffer = <<>>, !.buffer_index = 0],
               triangles |-> <<<<pa.buffer[1], pa.buffer[2], vtx>>>>]
    ELSE [pa |-> [pa EXCEPT !.buffer = BufferPut(@, pa.buffer_index + 1, vtx),
                            !.strip_ready = @ \/ pa.buffer_index = 1,
                            !.buffer_index = IF pa.topology = "Strip" THEN 1 - @ ELSE 1],
          triangles |-> IF pa.strip_ready THEN <<<<pa.buffer[1], pa.buffer[2], vtx>>>>
                        ELSE <<>>]

\* The ids whose case of the switch this module models; every other id modelled
\* here takes the default case.
IsTriggerReg(id) == id \in REG_command_buffer_trigger..(REG_command_buffer_trigger + 1)
IsUniformSetValueReg(unit, id) == id \in UniformSetValueReg(unit)..(UniformSetValueReg(unit) + 7)
IsProgramSetWordReg(unit, id) == id \in ProgramSetWordReg(unit)..(ProgramSetWordReg(unit) + 7)
IsSwizzleSetWordReg(unit, id) == id \in SwizzleSetWordReg(unit)..(SwizzleSetWordReg(unit) + 7)
IsDefaultAttributeSetValueReg(id) ==
    id \in REG_vs_default_attributes_set_value..(REG_vs_default_attributes_set_value + 2)

\* switch (id)
\* regs.vs.bool_uniforms.Value() / regs.gs.bool_uniforms.Value(): the low 16 bits.
BoolUniformsReg(unit) == IF unit = "vs" THEN REG_vs_bool_uniforms ELSE REG_gs_bool_uniforms
BoolUniformsValue(g, unit) == BitField(Reg(g, BoolUniformsReg(unit)), 0, 16)

\* The same with uniform i taken from bit i + 1.
WriteUniformBoolReg_shifted(g, unit, value) ==
    [g EXCEPT ![unit].uniforms_b =
        [k \in 0..(BoolUniformCapacity - 1) |-> (value \div 2 ^ (k + 1)) % 2 # 0]]

\* WriteUniformBoolReg(setup, value): uniforms.b[i] = (value & (1 << i)) != 0
WriteUniformBoolReg(g, unit, value) ==
    [g EXCEPT ![unit].uniforms_b =
        [k \in 0..(BoolUniformCapacity - 1) |-> (value \div 2 ^ k) % 2 # 0]]

SideEffect_none(g, id, value) == g

SideEffect(g, id, value) ==
    CASE id = REG_triangle_topology ->
             [g EXCEPT !.primitive_assembler = AssemblerReconfigure(@, TriangleTopology(g))]
      [] id = REG_restart_primitive ->
             [g EXCEPT !.primitive_assembler = AssemblerReset(@)]
      [] id = REG_vs_default_attributes_index -> DefaultAttributesIndex(g)
      [] IsDefaultAttributeSetValueReg(id) -> DefaultAttributeSetValue(g, value)
      [] IsTriggerReg(id) -> CommandBufferTrigger(g, id - REG_command_buffer_trigger)
      [] id = REG_gs_bool_uniforms -> WriteUniformBoolReg(g, "gs", BoolUniformsValue(g, "gs"))
      [] id = REG_vs_bool_uniforms -> WriteUniformBoolReg(g, "vs", BoolUniformsValue(g, "vs"))
      [] IsUniformSetValueReg("gs", id) -> WriteUniformFloatReg(g, "gs", value)
      [] IsProgramSetWordReg("gs", id) -> ProgramSetWord(g, "gs", value)
      [] IsSwizzleSetWordReg("gs", id) -> SwizzleSetWord(g, "gs", value)
      [] IsUniformSetValueReg("vs", id) -> WriteUniformFloatReg(g, "vs", value)
      [] IsProgramSetWordReg("vs", id) -> ProgramSetWord(g, "vs", value)
      [] IsSwizzleSetWordReg("vs", id) -> SwizzleSetWord(g, "vs", value)
      [] OTHER -> g

\* g_state after WritePicaReg(id, value, mask) called in g_state g.
WritePicaReg(g, id, value, mask) ==
    IF ~IsValidReg(id) THEN g
    ELSE LET old_value == Reg(g, id)
             write_mask == expand_bits_to_bytes[mask]
             g1 == [g EXCEPT !.regs = Put(@, id, MergeMasked(old_value, value, write_mask),
                                          ZeroWord)]
         IN  SideEffect(g1, id, value)

\* The value DebugUtils::OnPicaRegWrite is handed: regs.reg_array[id] after the store.
TracedValue_written(g, id, value, mask) == value
TracedValue(g, id, value, mask) ==
    MergeMasked(Reg(g, id), value, expand_bits_to_bytes[mask])

\* The collaborator calls WritePicaReg(id, value, mask) makes, in order, when tracing
\* is on (DebugUtils::IsPicaTracing()) and a debug context is present (g_debug_context).
\* The same calls, except that an attached debugger swallows the rasterizer
\* notification.
WritePicaRegCalls_debugged(g, id, value, mask, tracing, debug) ==
    IF ~IsValidReg(id) THEN <<>>
    ELSE (IF tracing
          THEN <<[call |-> "OnPicaRegWrite", id |-> id % 65536, mask |-> mask % 65536,
                  value |-> TracedValue(g, id, value, mask)]>>
          ELSE <<>>)
         \o (IF debug THEN <<[call |-> "OnEvent", event |-> "PicaCommandLoaded", id |-> id]>>
             ELSE <<[call |-> "NotifyPicaRegisterChanged", id |-> id]>>)
         \o (IF IsDefaultAttributeSetValueReg(id)
             THEN DefaultAttributeCalls(
                      [g EXCEPT !.regs = Put(@, id, TracedValue(g, id, value, mask), ZeroWord)],
                      value, debug)
             ELSE <<>>)
         \o (IF debug THEN <<[call |-> "OnEvent", event |-> "PicaCommandProcessed", id |-> id]>>
             ELSE <<>>)

WritePicaRegCalls(g, id, value, mask, tracing, debug) ==
    IF ~IsValidReg(id) THEN <<>>
    ELSE (IF tracing
          THEN <<[call |-> "OnPicaRegWrite", id |-> id % 65536, mask |-> mask % 65536,
                  value |-> TracedValue(g, id, value, mask)]>>
          ELSE <<>>)
         \o (IF debug THEN <<[call |-> "OnEvent", event |-> "PicaCommandLoaded", id |-> id]>>
             ELSE <<>>)
         \o (IF IsDefaultAttributeSetValueReg(id)
             THEN DefaultAttributeCalls(
                      [g EXCEPT !.regs = Put(@, id, TracedValue(g, id, value, mask), ZeroWord)],
                      value, debug)
             ELSE <<>>)
         \o <<[call |-> "NotifyPicaRegisterChanged", id |-> id]>>
         \o (IF debug THEN <<[call |-> "OnEvent", event |-> "PicaCommandProcessed", id |-> id]>>
             ELSE <<>>)

(***************************************************************************)
(* State                                                                   *)
(***************************************************************************)

VARIABLES
    g_state,          \* Pica::g_state: registers, shader setups, staging, cmd_list
    mem,              \* guest memory, a sequence of u32 (word k at physical address 4 k)
    pc,               \* where the caller of WritePicaReg stands
    header,           \* ProcessCommandList: the CommandHeader of the current command
    i,                \* ProcessCommandList: the index of the extra-data loop
    cmd_log,          \* the current command: where it was read and the writes it made
    last,             \* the last WritePicaReg call: its arguments and g_state before it
    calls,            \* the collaborator calls the last WritePicaReg call made
    pica_tracing,     \* DebugUtils::IsPicaTracing()
    g_debug_context,  \* whether g_debug_context is set
    jumped,           \* a command-buffer trigger was written during the walk
    args,             \* the arguments of the call under way
    nwrites,          \* register writes made by the call, or by the current command
    vs_output,        \* the static vertex cache of the draw case: batch, lock, output
    vs_output_size,   \* vs_output.size()
    batch_id,         \* the static batch counter of the draw case, a u32
    workers,          \* VSUnitLoop per thread_id: where it stands and its loop index
    draw,             \* the locals of the draw case: is_indexed, vs_threads, index
    shader_runs       \* shader_engine->Run calls of the batch, counted per vertex

vars ==
    <<g_state, mem, pc, header, i, cmd_log, last, calls, pica_tracing, g_debug_context,
      jumped, args, nwrites, vs_output, vs_output_size, batch_id, workers, draw,
      shader_runs>>

drawvars == <<vs_output, vs_output_size, batch_id, workers, draw, shader_runs>>

\* A cache entry nothing was written to: batch{0}, the lock clear, the output not
\* initialised.
NoOutput == [garbage |-> TRUE]
NoEntry == [batch |-> ZeroWord, lock |-> FALSE, output |-> NoOutput]
NoDraw == [is_indexed |-> FALSE, vs_threads |-> 0, index |-> 0]

\* static std::vector<CachedVertex> vs_output(0x10000)
InitialCacheSize == 65536

\* The statics of the draw case before the first draw, and no draw under way.
DrawIdle ==
    /\ vs_output = [x \in {} |-> NoEntry]
    /\ vs_output_size = InitialCacheSize
    /\ batch_id = U32(255, 255, 255, 255)
    /\ workers = <<>>
    /\ draw = NoDraw
    /\ shader_runs = [x \in {} |-> 0]

NoHeader == [cmd_id |-> 0, parameter_mask |-> 0, extra_data_length |-> 0, group_commands |-> 0]
NoCommand == [from |-> 0, value_at |-> 0, head |-> 0, writes |-> <<>>]
NoCall == [id |-> -1, value |-> ZeroWord, mask |-> 0, pre |-> InitState]

\* One call WritePicaReg(id, value, mask) in g_state g.
DoWrite(g, id, value, mask) ==
    /\ g_state' = WritePicaReg(g, id, value, mask)
    /\ last' = [id |-> id, value |-> value, mask |-> mask, pre |-> g]
    /\ calls' = WritePicaRegCalls(g, id, value, mask, pica_tracing, g_debug_context)

(***************************************************************************)
(* SpecWrite: WritePicaReg called once, and once more with the same        *)
(* arguments, on a register file that holds earlier writes.                *)
(***************************************************************************)

WriteValues == {U32(0, 0, 0, 0), U32(255, 255, 255, 255), U32(18, 52, 86, 120)}

WriteIds ==
    {256, REG_command_buffer_trigger, REG_vs_uniform_setup, REG_vs_uniform_set_value,
     REG_gs_uniform_set_value + 7, REG_vs_program_set_word, REG_gs_program_set_word,
     REG_vs_bool_uniforms, REG_gs_bool_uniforms, NUM_REGS - 1, NUM_REGS, 65535}

\* g_state after the calls WritePicaReg(c.id, c.value, c.mask) for c in cs, in order.
RECURSIVE AfterWrites(_, _)
AfterWrites(g, cs) ==
    IF cs = <<>> THEN g
    ELSE AfterWrites(WritePicaReg(g, Head(cs).id, Head(cs).value, Head(cs).mask), Tail(cs))

\* Earlier full writes of one value to the registers written here.
EarlierWrites(old) ==
    [k \in 1..10 |->
        [id |-> <<256, REG_command_buffer_trigger, REG_vs_uniform_setup,
                  REG_vs_uniform_set_value, REG_gs_uniform_set_value + 7,
                  REG_vs_program_set_word, REG_gs_program_set_word, NUM_REGS - 1,
                  REG_vs_bool_uniforms, REG_gs_bool_uniforms>>[k],
         value |-> old, mask |-> 15]]

InitWrite ==
    /\ \E old \in WriteValues : g_state = AfterWrites(InitState, EarlierWrites(old))
    /\ mem = <<>>
    /\ pc = "write"
    /\ header = NoHeader
    /\ i = 0
    /\ cmd_log = NoCommand
    /\ last = NoCall
    /\ calls = <<>>
    /\ pica_tracing \in BOOLEAN
    /\ g_debug_context \in BOOLEAN
    /\ jumped = FALSE
    /\ args = [id |-> 0, value |-> ZeroWord, mask |-> 0]
    /\ nwrites = 0
    /\ DrawIdle

Write ==
    /\ pc = "write"
    /\ \E id \in WriteIds, value \in WriteValues, mask \in 0..15 :
         /\ DoWrite(g_state, id, value, mask)
         /\ args' = [id |-> id, value |-> value, mask |-> mask]
    /\ pc' = "rewrite"
    /\ nwrites' = 1
    /\ UNCHANGED drawvars /\ UNCHANGED <<mem, header, i, cmd_log, pica_tracing, g_debug_context, jumped>>

Rewrite ==
    /\ pc = "rewrite"
    /\ DoWrite(g_state, args.id, args.value, args.mask)
    /\ pc' = "written"
    /\ nwrites' = 2
    /\ UNCHANGED drawvars /\ UNCHANGED <<mem, header, i, cmd_log, pica_tracing, g_debug_context, jumped, args>>

NextWrite == Write \/ Rewrite

SpecWrite == InitWrite /\ [][NextWrite]_vars

(***************************************************************************)
(* Spec: ProcessCommandList(list, size) walking a command list in guest    *)
(* memory.  One step is one iteration head (alignment, value word, header, *)
(* first write) or one extra-data write.                                   *)
(***************************************************************************)

\* The longest list, in words, and the words of guest memory that follow it.
MaxLen == 5
Slack == 2

\* CommandHeader: cmd_id, parameter_mask, extra_data_length, group_commands of a word.
CommandHeader(w) ==
    [cmd_id |-> BitField(w, 0, 16),
     parameter_mask |-> BitField(w, 16, 4),
     extra_data_length |-> BitField(w, 20, 11),
     group_commands |-> BitField(w, 31, 1)]

\* The words a list is made of; each serves as a value and as a header.
\*   0x00000002  value 2; header: register 2, mask 0
\*   0x000F0238  header: command_buffer.size[0], mask 0xF
\*   0x000F023A  header: command_buffer.addr[0], mask 0xF
\*   0x001F023C  header: command_buffer.trigger[0], mask 0xF, 1 extra word, not grouped
\*   0x802502FF  header: register 0x2FF, mask 0x5, 2 extra words, grouped
\*   0x001F02C1  header: vs.uniform_setup.set_value[0], mask 0xF, 1 extra word, not grouped
\*   0x801F023C  header: command_buffer.trigger[0], mask 0xF, 1 extra word, grouped
\*               (the extra word is written to command_buffer.trigger[1])
ListWords ==
    {U32(0, 0, 0, 2), U32(0, 15, 2, 56), U32(0, 15, 2, 58), U32(0, 31, 2, 60),
     U32(128, 37, 2, 255), U32(0, 31, 2, 193), U32(128, 31, 2, 60)}

\* The lists of at most n words out of ws.
RECURSIVE Lists(_, _)
Lists(ws, n) ==
    IF n = 0 THEN {<<>>}
    ELSE LET shorter == Lists(ws, n - 1)
         IN  shorter \cup {Append(l, w) : l \in {x \in shorter : Len(x) = n - 1}, w \in ws}

MemWords == MaxLen + Slack

Init ==
    /\ g_state = InitState
    /\ mem = [k \in 1..MemWords |-> ZeroWord]
    /\ args = [list |-> 0, size |-> 0]
    /\ pc = "call"
    /\ header = NoHeader
    /\ i = 0
    /\ cmd_log = NoCommand
    /\ last = NoCall
    /\ calls = <<>>
    /\ pica_tracing = TRUE
    /\ g_debug_context = TRUE
    /\ jumped = FALSE
    /\ nwrites = 0
    /\ DrawIdle

\* *ptr for a u32* into guest memory
Deref(ptr) == mem[ptr + 1]
Mapped(ptr) == ptr >= 0 /\ ptr < Len(mem)

\* ptr++ past one word read.
Advance_stay(ptr) == ptr
Advance(ptr) == ptr + 1

\* "Align read pointer to 8 bytes": the words skipped before the value word.
Padding_never(head_ptr, current_ptr) == 0
Padding(head_ptr, current_ptr) == IF (head_ptr - current_ptr) % 2 # 0 THEN 1 ELSE 0

\* The register the i-th extra word is written to.
ExtraCmd_noSkip(h, k) == h.cmd_id + (IF h.group_commands # 0 THEN k ELSE 0)
ExtraCmd(h, k) == h.cmd_id + (IF h.group_commands # 0 THEN k + 1 ELSE 0)

\* The loop condition.
InList(cl) == cl.current_ptr < cl.head_ptr + cl.length

\* ProcessCommandList(list, size) is called on one of the lists, which the guest put
\* at the start of its memory: the entry of the function.
EnterList(lists) ==
    /\ pc = "call"
    /\ \E words \in lists :
         /\ mem' = words \o [k \in 1..(MemWords - Len(words)) |-> ZeroWord]
         /\ args' = [list |-> 0, size |-> 4 * Len(words)]
         /\ g_state' = [g_state EXCEPT !.cmd_list =
                          [head_ptr |-> 0, current_ptr |-> 0,
                           length |-> (4 * Len(words)) \div 4]]
    /\ pc' = "loop"
    /\ UNCHANGED drawvars /\ UNCHANGED <<header, i, cmd_log, last, calls, pica_tracing, g_debug_context,
                   jumped, nwrites>>

Enter == EnterList(Lists(ListWords, MaxLen))

\* One iteration up to and including WritePicaReg(header.cmd_id, value, mask).
Iterate ==
    /\ pc = "loop"
    /\ InList(g_state.cmd_list)
    /\ LET cl == g_state.cmd_list
           skip == Padding(cl.head_ptr, cl.current_ptr)
           value_ptr == cl.current_ptr + skip
           header_ptr == Advance(value_ptr)
       IN  /\ Mapped(value_ptr) /\ Mapped(header_ptr)
           /\ LET h == CommandHeader(Deref(header_ptr))
                  g == [g_state EXCEPT !.cmd_list.current_ptr = Advance(header_ptr)]
              IN  /\ DoWrite(g, h.cmd_id, Deref(value_ptr), h.parameter_mask)
                  /\ header' = h
                  /\ cmd_log' = [from |-> cl.current_ptr, value_at |-> value_ptr, head |-> cl.head_ptr,
                                 writes |-> <<[id |-> h.cmd_id, value |-> Deref(value_ptr),
                                              mask |-> h.parameter_mask, at |-> value_ptr]>>]
                  /\ jumped' = (jumped \/ IsTriggerReg(h.cmd_id))
                  /\ pc' = IF 0 < h.extra_data_length THEN "extra" ELSE "loop"
    /\ i' = 0
    /\ nwrites' = 1
    /\ UNCHANGED drawvars /\ UNCHANGED <<mem, pica_tracing, g_debug_context, args>>

\* One turn of the extra-data loop.
Extra ==
    /\ pc = "extra"
    /\ LET ptr == g_state.cmd_list.current_ptr
           cmd == ExtraCmd(header, i)
       IN  /\ Mapped(ptr)
           /\ DoWrite([g_state EXCEPT !.cmd_list.current_ptr = Advance(ptr)],
                      cmd, Deref(ptr), header.parameter_mask)
           /\ cmd_log' = [cmd_log EXCEPT !.writes =
                            Append(@, [id |-> cmd, value |-> Deref(ptr),
                                       mask |-> header.parameter_mask, at |-> ptr])]
           /\ jumped' = (jumped \/ IsTriggerReg(cmd))
    /\ i' = i + 1
    /\ pc' = IF i + 1 < header.extra_data_length THEN "extra" ELSE "loop"
    /\ nwrites' = nwrites + 1
    /\ UNCHANGED drawvars /\ UNCHANGED <<mem, header, pica_tracing, g_debug_context, args>>

\* The loop condition fails: ProcessCommandList returns.
Return ==
    /\ pc = "loop"
    /\ ~InList(g_state.cmd_list)
    /\ pc' = "done"
    /\ UNCHANGED drawvars /\ UNCHANGED <<g_state, mem, header, i, cmd_log, last, calls, pica_tracing,
                   g_debug_context, jumped, args, nwrites>>

\* A read through a pointer outside guest memory (GetPhysicalPointer gave no
\* mapping for the address a trigger jumped to): the process faults.
Fault ==
    /\ \/ /\ pc = "loop"
          /\ InList(g_state.cmd_list)
          /\ LET cl == g_state.cmd_list
                 value_ptr == cl.current_ptr + Padding(cl.head_ptr, cl.current_ptr)
             IN  ~(Mapped(value_ptr) /\ Mapped(Advance(value_ptr)))
       \/ /\ pc = "extra"
          /\ ~Mapped(g_state.cmd_list.current_ptr)
    /\ pc' = "fault"
    /\ UNCHANGED drawvars /\ UNCHANGED <<g_state, mem, header, i, cmd_log, last, calls, pica_tracing,
                   g_debug_context, jumped, args, nwrites>>

Next == Enter \/ Iterate \/ Extra \/ Return \/ Fault

Spec == Init /\ [][Next]_vars

(***************************************************************************)
(* FairSpec: the same walk on short lists, with the dispatcher thread kept *)
(* running (nothing stops it between two steps of the loop).               *)
(***************************************************************************)

MaxShortLen == 4

\* The words of a short list.
\*   0x00F00002  value whose low bits are 2; header: register 2, mask 0, 15 extra
\*               words, not grouped
\*   0x000F0238  header: command_buffer.size[0], mask 0xF
\*   0x001F023C  header: command_buffer.trigger[0], mask 0xF, 1 extra word, not grouped
ShortWords == {U32(0, 240, 0, 2), U32(0, 15, 2, 56), U32(0, 31, 2, 60)}

EnterShort == EnterList(Lists(ShortWords, MaxShortLen))

NextShort == EnterShort \/ Iterate \/ Extra \/ Return \/ Fault

FairSpec == Init /\ [][NextShort]_vars /\ WF_vars(NextShort)

(***************************************************************************)
(* SpecUniform: a unit's uniform_setup is written, then words are written  *)
(* to its set_value port, with the format bit of uniform_setup switched    *)
(* between words at will.                                                  *)
(***************************************************************************)

MaxUniformWrites == 7

\* uniform_setup words: index 0, 95, 96 and 127, in packed and in 32-bit format.
SetupWords ==
    {U32(f, 0, 0, n) : f \in {0, 128}, n \in {0, MaxFloatUniforms - 1, MaxFloatUniforms, 127}}

\* 1.0f and a word whose four bytes differ.
UniformValues == {U32(63, 128, 0, 0), U32(18, 52, 86, 120)}

InitUniform ==
    /\ g_state = InitState
    /\ mem = <<>>
    /\ pc = "setup"
    /\ header = NoHeader
    /\ i = 0
    /\ cmd_log = NoCommand
    /\ last = NoCall
    /\ calls = <<>>
    /\ pica_tracing = FALSE
    /\ g_debug_context = FALSE
    /\ jumped = FALSE
    /\ args = [unit |-> "vs", value |-> ZeroWord]
    /\ nwrites = 0
    /\ DrawIdle

\* WritePicaReg(uniform_setup, setupw, 0xF)
UniformSetup ==
    /\ pc = "setup"
    /\ \E unit \in Units, setupw \in SetupWords :
         /\ DoWrite(g_state, UniformSetupReg(unit), setupw, 15)
         /\ args' = [unit |-> unit, value |-> ZeroWord]
    /\ pc' = "feed"
    /\ UNCHANGED drawvars /\ UNCHANGED <<mem, header, i, cmd_log, pica_tracing, g_debug_context, jumped, nwrites>>

\* WritePicaReg(uniform_setup.set_value[0], value, 0xF)
UniformWord ==
    /\ pc = "feed"
    /\ nwrites < MaxUniformWrites
    /\ \E value \in UniformValues :
         /\ DoWrite(g_state, UniformSetValueReg(args.unit), value, 15)
         /\ args' = [args EXCEPT !.value = value]
    /\ nwrites' = nwrites + 1
    /\ UNCHANGED drawvars /\ UNCHANGED <<mem, pc, header, i, cmd_log, pica_tracing, g_debug_context, jumped>>

\* WritePicaReg(uniform_setup, the other format, 0x8): only the byte of the format bit.
SwitchFormat ==
    /\ pc = "feed"
    /\ nwrites < MaxUniformWrites
    /\ LET setupw == Reg(g_state, UniformSetupReg(args.unit))
       IN  DoWrite(g_state, UniformSetupReg(args.unit),
                   IF IsFloat32(setupw) THEN ZeroWord ELSE U32(128, 0, 0, 0), 8)
    /\ nwrites' = nwrites + 1
    /\ UNCHANGED drawvars /\ UNCHANGED <<mem, pc, header, i, cmd_log, pica_tracing, g_debug_context, jumped, args>>

NextUniform == UniformSetup \/ UniformWord \/ SwitchFormat

SpecUniform == InitUniform /\ [][NextUniform]_vars

(***************************************************************************)
(* SpecFill: uniform_setup is written with index 0, then one word is       *)
(* written to the set_value port again and again, past the 97th flush.     *)
(***************************************************************************)

MaxFillWrites == 392

\* WritePicaReg(uniform_setup, index 0 in either format, 0xF)
FillSetup ==
    /\ pc = "setup"
    /\ \E unit \in Units, f \in {0, 128}, value \in UniformValues :
         /\ DoWrite(g_state, UniformSetupReg(unit), U32(f, 0, 0, 0), 15)
         /\ args' = [unit |-> unit, value |-> value]
    /\ pc' = "fill"
    /\ UNCHANGED drawvars /\ UNCHANGED <<mem, header, i, cmd_log, pica_tracing, g_debug_context, jumped, nwrites>>

\* WritePicaReg(uniform_setup.set_value[0], value, 0xF)
FillWord ==
    /\ pc = "fill"
    /\ nwrites < MaxFillWrites
    /\ DoWrite(g_state, UniformSetValueReg(args.unit), args.value, 15)
    /\ nwrites' = nwrites + 1
    /\ UNCHANGED drawvars /\ UNCHANGED <<mem, pc, header, i, cmd_log, pica_tracing, g_debug_context, jumped, args>>

NextFill == FillSetup \/ FillWord

SpecFill == InitUniform /\ [][NextFill]_vars

(***************************************************************************)
(* SpecDecode: three words are staged and flushed through the packed       *)
(* decode, as a float uniform of the vertex unit or as a default           *)
(* attribute, both at index 0.                                             *)
(***************************************************************************)

\* 0x01020304, 0xA1B2C3D4, 0x80000001, 0xFFFFFFFF and 0.
DecodeWords ==
    {U32(1, 2, 3, 4), U32(161, 178, 195, 212), U32(128, 0, 0, 1), U32(255, 255, 255, 255),
     ZeroWord}

InitDecode ==
    /\ g_state = InitState
    /\ mem = <<>>
    /\ pc = "decode"
    /\ header = NoHeader
    /\ i = 0
    /\ cmd_log = NoCommand
    /\ last = NoCall
    /\ calls = <<>>
    /\ pica_tracing = FALSE
    /\ g_debug_context = FALSE
    /\ jumped = FALSE
    /\ \E w0 \in DecodeWords, w1 \in DecodeWords, w2 \in DecodeWords :
         args = [buffer |-> <<w0, w1, w2>>]
    /\ nwrites = 0
    /\ DrawIdle

\* Three writes of WritePicaReg to port, with the staged words.
StageAndFlush(port) ==
    /\ DoWrite(AfterWrites(g_state, [k \in 1..2 |->
                            [id |-> port + k - 1, value |-> args.buffer[k], mask |-> 15]]),
               port + 2, args.buffer[3], 15)
    /\ nwrites' = 3
    /\ UNCHANGED drawvars /\ UNCHANGED <<mem, header, i, cmd_log, pica_tracing, g_debug_context, jumped, args>>

\* vs.uniform_setup is 0 (packed format, index 0): set_value[0..2] are written.
DecodeUniform ==
    /\ pc = "decode"
    /\ StageAndFlush(REG_vs_uniform_set_value)
    /\ pc' = "uniform"

\* vs_default_attributes_setup.index is 0: set_value[0..2] are written.
DecodeAttribute ==
    /\ pc = "decode"
    /\ StageAndFlush(REG_vs_default_attributes_set_value)
    /\ pc' = "attribute"

NextDecode == DecodeUniform \/ DecodeAttribute

SpecDecode == InitDecode /\ [][NextDecode]_vars

(***************************************************************************)
(* SpecProgram: gs_unit_exclusive_configuration and the program and        *)
(* swizzle offsets of both units are written, then words are written to    *)
(* the program and swizzle ports, with the exclusive flag switched between *)
(* words at will.                                                          *)
(***************************************************************************)

MaxProgramWrites == 3

\* Offsets at the start, in the middle and at the two limits (512 and 4096).
ProgramOffsets == {ToWord(0), ToWord(511), ToWord(512), ToWord(4095), ToWord(4096)}

ProgramWords == {U32(63, 128, 0, 0), U32(18, 52, 86, 120)}

\* WritePicaReg of the flag, then of the four offset registers.
ProgramConfigure ==
    /\ pc = "setup"
    /\ \E flag \in {ZeroWord, ToWord(1)}, offset \in ProgramOffsets :
         DoWrite(AfterWrites(g_state,
                     <<[id |-> REG_gs_unit_exclusive_configuration, value |-> flag, mask |-> 15],
                       [id |-> REG_vs_program_offset, value |-> offset, mask |-> 15],
                       [id |-> REG_gs_program_offset, value |-> offset, mask |-> 15],
                       [id |-> REG_vs_swizzle_offset, value |-> offset, mask |-> 15]>>),
                 REG_gs_swizzle_offset, offset, 15)
    /\ pc' = "load"
    /\ UNCHANGED drawvars /\ UNCHANGED <<mem, header, i, cmd_log, pica_tracing, g_debug_context, jumped, args,
                   nwrites>>

\* WritePicaReg(program.set_word[0] or swizzle_patterns.set_word[0] of a unit, value,
\* 0xF or 0x5)
ProgramWord ==
    /\ pc = "load"
    /\ nwrites < MaxProgramWrites
    /\ \E unit \in Units, value \in ProgramWords, mask \in {5, 15} :
         \E port \in {ProgramSetWordReg(unit), SwizzleSetWordReg(unit)} :
            /\ DoWrite(g_state, port, value, mask)
            /\ args' = [unit |-> unit, value |-> value]
    /\ nwrites' = nwrites + 1
    /\ UNCHANGED drawvars /\ UNCHANGED <<mem, pc, header, i, cmd_log, pica_tracing, g_debug_context, jumped>>

\* WritePicaReg(gs_unit_exclusive_configuration, the other setting, 0xF)
SwitchExclusive ==
    /\ pc = "load"
    /\ nwrites < MaxProgramWrites
    /\ DoWrite(g_state, REG_gs_unit_exclusive_configuration,
               IF GsUnitShared(g_state) THEN ToWord(1) ELSE ZeroWord, 15)
    /\ nwrites' = nwrites + 1
    /\ UNCHANGED drawvars /\ UNCHANGED <<mem, pc, header, i, cmd_log, pica_tracing, g_debug_context, jumped, args>>

NextProgram == ProgramConfigure \/ ProgramWord \/ SwitchExclusive

SpecProgram == InitUniform /\ [][NextProgram]_vars

(***************************************************************************)
(* SpecAttribute: max_input_attrib_index and the default-attribute index   *)
(* are written, then words are written to the default-attribute port, with *)
(* the index register written again between words at will.                 *)
(***************************************************************************)

MaxAttributeWrites == 6

\* Values of vs_default_attributes_setup.index: 0, 14, 15, 16 and 0xFFFFFFFF.
AttributeIndexes == {ToWord(0), ToWord(14), ToWord(15), ToWord(16), U32(255, 255, 255, 255)}

\* Values of max_input_attrib_index.
MaxAttribIndexes == {0, 1, 2}

\* WritePicaReg(max_input_attrib_index, max, 0xF),
\* WritePicaReg(vs_default_attributes_setup.index, index, 0xF)
AttributeSetup ==
    /\ pc = "setup"
    /\ \E max \in MaxAttribIndexes, index \in AttributeIndexes :
         DoWrite(AfterWrites(g_state, <<[id |-> REG_max_input_attrib_index,
                                         value |-> ToWord(max), mask |-> 15]>>),
                 REG_vs_default_attributes_index, index, 15)
    /\ pc' = "attributes"
    /\ UNCHANGED drawvars /\ UNCHANGED <<mem, header, i, cmd_log, pica_tracing, g_debug_context, jumped, args,
                   nwrites>>

\* WritePicaReg(vs_default_attributes_setup.set_value[0], value, 0xF)
AttributeWord ==
    /\ pc = "attributes"
    /\ nwrites < MaxAttributeWrites
    /\ \E value \in UniformValues :
         /\ DoWrite(g_state, REG_vs_default_attributes_set_value, value, 15)
         /\ args' = [args EXCEPT !.value = value]
    /\ nwrites' = nwrites + 1
    /\ UNCHANGED drawvars /\ UNCHANGED <<mem, pc, header, i, cmd_log, pica_tracing, g_debug_context, jumped>>

\* WritePicaReg(vs_default_attributes_setup.index, the index it holds, 0xF)
AttributeReindex ==
    /\ pc = "attributes"
    /\ nwrites < MaxAttributeWrites
    /\ DoWrite(g_state, REG_vs_default_attributes_index,
               Reg(g_state, REG_vs_default_attributes_index), 15)
    /\ nwrites' = nwrites + 1
    /\ UNCHANGED drawvars /\ UNCHANGED <<mem, pc, header, i, cmd_log, pica_tracing, g_debug_context, jumped, args>>

NextAttribute == AttributeSetup \/ AttributeWord \/ AttributeReindex

SpecAttribute == InitUniform /\ [][NextAttribute]_vars

(***************************************************************************)
(* SpecImmediate: the default-attribute index is set to 15 and one word is *)
(* written to the default-attribute port again and again.                  *)
(***************************************************************************)

MaxImmediateWrites == 27

\* WritePicaReg(max_input_attrib_index, max, 0xF),
\* WritePicaReg(vs_default_attributes_setup.index, 15, 0xF)
ImmediateSetup ==
    /\ pc = "setup"
    /\ \E max \in MaxAttribIndexes, value \in UniformValues,
          debug \in BOOLEAN, tracing \in BOOLEAN :
         /\ DoWrite(AfterWrites(g_state, <<[id |-> REG_max_input_attrib_index,
                                            value |-> ToWord(max), mask |-> 15]>>),
                    REG_vs_default_attributes_index, ToWord(ImmediateIndex), 15)
         /\ args' = [unit |-> "vs", value |-> value]
         /\ g_debug_context' = debug
         /\ pica_tracing' = tracing
    /\ pc' = "immediate"
    /\ UNCHANGED drawvars /\ UNCHANGED <<mem, header, i, cmd_log, jumped, nwrites>>

\* WritePicaReg(vs_default_attributes_setup.set_value[0], value, 0xF)
ImmediateWord ==
    /\ pc = "immediate"
    /\ nwrites < MaxImmediateWrites
    /\ DoWrite(g_state, REG_vs_default_attributes_set_value, args.value, 15)
    /\ nwrites' = nwrites + 1
    /\ UNCHANGED drawvars /\ UNCHANGED <<mem, pc, header, i, cmd_log, pica_tracing, g_debug_context, jumped, args>>

NextImmediate == ImmediateSetup \/ ImmediateWord

SpecImmediate == InitUniform /\ [][NextImmediate]_vars

(***************************************************************************)
(* The draw trigger (trigger_draw, trigger_draw_indexed): the vertex       *)
(* shader runs over the batch, inline or on vs_threads pool threads, and   *)
(* the calling thread submits the vertices.  A step of a thread is one     *)
(* access to the shared cache.  No debug context is attached.              *)
(***************************************************************************)

REG_num_vertices == 552
REG_use_gs == 553
REG_trigger_draw == 558
REG_trigger_draw_indexed == 559

\* regs.pipeline.num_vertices, a u32 (below 2^31 in every batch drawn here).
NumVertices(g) == Lo16(Reg(g, REG_num_vertices)) + 65536 * Hi16(Reg(g, REG_num_vertices))

\* regs.pipeline.use_gs == UseGS::No and == UseGS::Yes; the field has two bits.
UseGsNo(g) == BitField(Reg(g, REG_use_gs), 0, 2) = 0
UseGsYes(g) == BitField(Reg(g, REG_use_gs), 0, 2) = 2

AccelerateDraw_anyCount(g, a) ==
    a.hw_shader_enabled /\ IsEmpty(g.primitive_assembler) /\ UseGsNo(g)

\* accelerate_draw, as it stands when AccelerateDrawBatch is asked.
AccelerateDraw(g, a) ==
    /\ a.hw_shader_enabled
    /\ IsEmpty(g.primitive_assembler)
    /\ UseGsNo(g)
    /\ g.primitive_assembler.topology \in {"Shader", "List"} => NumVertices(g) % 3 = 0

AcceleratedBatch_refused(g, a) == FALSE

\* accelerate_draw && Rasterizer()->AccelerateDrawBatch(is_indexed).
AcceleratedBatch(g, a) == AccelerateDraw(g, a) /\ a.accepts

\* vs_threads, in the unsigned arithmetic of the build: hardware_concurrency() - 1
\* wraps to 2^32 - 1 when hardware_concurrency() is 0, and no quotient of two u32
\* exceeds that.  min_vertices_per_thread is taken positive.
VsThreads_allCores(num_vertices, min_vertices_per_thread, hardware_concurrency) ==
    LET quotient == num_vertices \div min_vertices_per_thread
    IN  IF quotient < hardware_concurrency THEN quotient ELSE hardware_concurrency

VsThreads(num_vertices, min_vertices_per_thread, hardware_concurrency) ==
    LET quotient == num_vertices \div min_vertices_per_thread
    IN  IF hardware_concurrency = 0 THEN quotient
        ELSE IF quotient < hardware_concurrency - 1 THEN quotient
        ELSE hardware_concurrency - 1

NextBatchId_plain(id) == Inc32(id)

\* ++batch_id, and once more when it overflows to 0.
NextBatchId(id) == IF Inc32(id) = ZeroWord THEN Inc32(ZeroWord) ELSE Inc32(id)

\* for (auto& entry : vs_output) entry.batch = 0, when batch_id overflows.
ResetOnOverflow(cache, id) ==
    IF Inc32(id) = ZeroWord
    THEN [s \in DOMAIN cache |-> [cache[s] EXCEPT !.batch = ZeroWord]]
    ELSE cache

VertexIndex(a, is_indexed, index) ==
    IF is_indexed THEN a.index_array[index + 1] ELSE index + a.vertex_offset

\* The entry of vs_output a loop index stands for: vs_output[is_indexed ? vertex : index].
CachedVertex(a, is_indexed, index) ==
    IF is_indexed THEN VertexIndex(a, is_indexed, index) ELSE index

\* loader.LoadVertex fetches the attributes of a vertex; what it yields is fixed by
\* the vertex within a batch.  The shader's output is Run of that input, written to
\* the entry in more than one store.
LoadVertex(vertex) == [vertex |-> vertex]
PartialOutput(vertex) == [partial |-> LoadVertex(vertex)]

CacheHit_never(entry, id) == FALSE

\* cached_vertex.batch.load(...) == batch_id in VSUnitLoop.
CacheHit(entry, id) == entry.batch = id

TestAndSet_clear(entry) == FALSE

\* What cached_vertex.lock.test_and_set(acquire) returns: the flag as it was.
TestAndSet(entry) == entry.lock

Ready_always(entry, id) == TRUE

\* The calling thread leaves its yield loop: cached_vertex.batch.load(acquire) == batch_id.
Ready(entry, id) == entry.batch = id

FirstLoopIndex_zero(thread_id) == 0

\* unsigned int index = thread_id in VSUnitLoop.
FirstLoopIndex(thread_id) == thread_id

NextLoopIndex_wide(index, num_threads) == index + num_threads + 1

\* index += num_threads in VSUnitLoop.
NextLoopIndex(index, num_threads) == index + num_threads

NextVertex_skip(index) == index + 2

\* ++index in the submission loop.
NextVertex(index) == index + 1

SingleThread == draw.vs_threads = 0
NumThreads == IF SingleThread THEN 1 ELSE draw.vs_threads
Entry(index) == Get(vs_output, CachedVertex(args, draw.is_indexed, index), NoEntry)

\* The loop head of VSUnitLoop after a continue or the end of the body.
Continue(w) ==
    LET index == NextLoopIndex(w.index, NumThreads)
    IN  [pc |-> IF index < NumVertices(g_state) THEN "head" ELSE "done", index |-> index]

\* if (!is_indexed && vs_output.size() < num_vertices) vs_output.resize(num_vertices):
\* the size of the cache after it.
Resized_never(size, is_indexed, num_vertices) == size
Resized(size, is_indexed, num_vertices) ==
    IF ~is_indexed /\ size < num_vertices THEN num_vertices ELSE size

\* The entries after the resize.  A vector that grows within its capacity keeps its
\* entries; one that reallocates copies them with CachedVertex(const CachedVertex&),
\* which copies nothing: every entry is then as NoEntry.  Which of the two happens
\* is the library's choice.
ResizedEntries(entries, size, resized) ==
    IF resized = size THEN {entries} ELSE {entries, [x \in {} |-> NoEntry]}

\* if (NeedIndexInput()) ASSERT(is_indexed): whether the draw gets past it.
AssertIndexed(is_indexed, need_index) == need_index => is_indexed

\* use_gs && is_indexed && NeedIndexInput(): the controller forwards the vertex
\* index and goes on to the next loop index.
FeedsIndex_never(g, is_indexed, need_index) == FALSE
FeedsIndex(g, is_indexed, need_index) == UseGsYes(g) /\ is_indexed /\ need_index

\* VSUnitLoop(0, 1) runs on the calling thread before it goes on.
InlineLoopOver == SingleThread => workers[0].pc = "done"

\* WritePicaReg up to the dispatch of the vertex shader: the register store, the
\* accelerated draw, batch_id, vs_threads, and VSUnitLoop called or pushed.
DrawTrigger ==
    /\ pc = "trigger"
    /\ g_state' = WritePicaReg(g_state, args.id, ToWord(1), 15)
    /\ last' = [id |-> args.id, value |-> ToWord(1), mask |-> 15, pre |-> g_state,
                batch_id |-> batch_id, vs_output |-> vs_output,
                vs_output_size |-> vs_output_size]
    /\ IF AcceleratedBatch(g_state, args)
       THEN /\ pc' = "finished"
            /\ calls' = <<[call |-> "AccelerateDrawBatch", accepted |-> args.accepts],
                          [call |-> "NotifyPicaRegisterChanged", id |-> args.id]>>
            /\ UNCHANGED drawvars
       ELSE LET num_vertices == NumVertices(g_state)
                vs_threads == VsThreads(num_vertices, args.min_vertices_per_thread,
                                        args.hardware_concurrency)
                threads == IF vs_threads = 0 THEN {0} ELSE 0..(vs_threads - 1)
                is_indexed == args.id = REG_trigger_draw_indexed
                size == Resized(vs_output_size, is_indexed, num_vertices)
            IN  /\ vs_output_size' = size
                /\ batch_id' = NextBatchId(batch_id)
                /\ \E resized \in ResizedEntries(vs_output, vs_output_size, size) :
                     vs_output' = ResetOnOverflow(resized, batch_id)
                /\ draw' = [is_indexed |-> is_indexed,
                            vs_threads |-> vs_threads, index |-> 0]
                /\ workers' = [t \in threads |->
                                  [pc |-> IF FirstLoopIndex(t) < num_vertices
                                          THEN "head" ELSE "done",
                                   index |-> FirstLoopIndex(t)]]
                /\ shader_runs' = [x \in {} |-> 0]
                /\ pc' = IF AssertIndexed(is_indexed, args.need_index)
                         THEN "consume" ELSE "aborted"
                /\ calls' = (IF AccelerateDraw(g_state, args)
                              THEN <<[call |-> "AccelerateDrawBatch",
                                      accepted |-> args.accepts]>>
                              ELSE <<>>)
                             \o <<[call |-> "Reconfigure"], [call |-> "Setup"]>>
    /\ nwrites' = nwrites + 1
    /\ UNCHANGED <<mem, header, i, cmd_log, pica_tracing, g_debug_context, jumped, args>>

\* A thread of the pool runs whenever it is scheduled; the inline loop runs first.
Scheduled(t) ==
    /\ pc \in {"consume", "read"}
    /\ t \in DOMAIN workers

\* cached_vertex.lock.test_and_set(acquire) of an indexed draw on the pool.
WorkerLock == \E t \in DOMAIN workers :
    /\ Scheduled(t)
    /\ workers[t].pc = "head"
    /\ draw.is_indexed /\ ~SingleThread
    /\ LET slot == CachedVertex(args, TRUE, workers[t].index)
           entry == Entry(workers[t].index)
       IN  IF TestAndSet(entry)
           THEN /\ workers' = [workers EXCEPT ![t] = Continue(@)]
                /\ UNCHANGED vs_output
           ELSE /\ vs_output' = Put(vs_output, slot, [entry EXCEPT !.lock = TRUE], NoEntry)
                /\ workers' = [workers EXCEPT ![t].pc = "check"]
    /\ UNCHANGED <<g_state, mem, pc, header, i, cmd_log, last, calls, pica_tracing,
                   g_debug_context, jumped, args, nwrites, batch_id, draw, shader_runs>>
    /\ UNCHANGED vs_output_size

\* cached_vertex.batch.load(...) == batch_id: under the lock on the pool, at the loop
\* head inline.
WorkerCheck == \E t \in DOMAIN workers :
    /\ Scheduled(t)
    /\ draw.is_indexed
    /\ workers[t].pc = IF SingleThread THEN "head" ELSE "check"
    /\ workers' = [workers EXCEPT ![t] =
                      IF CacheHit(Entry(@.index), batch_id)
                      THEN (IF SingleThread THEN Continue(@) ELSE [@ EXCEPT !.pc = "unlock"])
                      ELSE [@ EXCEPT !.pc = "run"]]
    /\ UNCHANGED <<g_state, mem, pc, header, i, cmd_log, last, calls, pica_tracing,
                   g_debug_context, jumped, args, nwrites, vs_output, batch_id, draw,
                   shader_runs>>
    /\ UNCHANGED vs_output_size

\* LoadVertex, LoadInput, Run, and the first store of the output to the entry.
WorkerRun == \E t \in DOMAIN workers :
    /\ Scheduled(t)
    /\ workers[t].pc = IF draw.is_indexed THEN "run" ELSE "head"
    /\ LET index == workers[t].index
           vertex == VertexIndex(args, draw.is_indexed, index)
       IN  /\ shader_runs' = Put(shader_runs, vertex, Get(shader_runs, vertex, 0) + 1, 0)
           /\ vs_output' = Put(vs_output, CachedVertex(args, draw.is_indexed, index),
                               [Entry(index) EXCEPT !.output = PartialOutput(vertex)],
                               NoEntry)
    /\ workers' = [workers EXCEPT ![t].pc = "write"]
    /\ UNCHANGED <<g_state, mem, pc, header, i, cmd_log, last, calls, pica_tracing,
                   g_debug_context, jumped, args, nwrites, batch_id, draw>>
    /\ UNCHANGED vs_output_size

\* The last store of the output to the entry.
WorkerWrite == \E t \in DOMAIN workers :
    /\ Scheduled(t)
    /\ workers[t].pc = "write"
    /\ LET index == workers[t].index
           vertex == VertexIndex(args, draw.is_indexed, index)
       IN  vs_output' = Put(vs_output, CachedVertex(args, draw.is_indexed, index),
                            [Entry(index) EXCEPT !.output = Run(LoadVertex(vertex))],
                            NoEntry)
    /\ workers' = [workers EXCEPT ![t] =
                      IF SingleThread /\ ~draw.is_indexed THEN Continue(@)
                      ELSE [@ EXCEPT !.pc = "tag"]]
    /\ UNCHANGED <<g_state, mem, pc, header, i, cmd_log, last, calls, pica_tracing,
                   g_debug_context, jumped, args, nwrites, batch_id, draw, shader_runs>>
    /\ UNCHANGED vs_output_size

StoredTag_zero(id) == ZeroWord

\* The tag batch.store writes: batch_id.
StoredTag(id) == id

\* cached_vertex.batch.store(batch_id, ...).
WorkerTag == \E t \in DOMAIN workers :
    /\ Scheduled(t)
    /\ workers[t].pc = "tag"
    /\ LET index == workers[t].index
       IN  vs_output' = Put(vs_output, CachedVertex(args, draw.is_indexed, index),
                            [Entry(index) EXCEPT !.batch = StoredTag(batch_id)], NoEntry)
    /\ workers' = [workers EXCEPT ![t] =
                      IF ~SingleThread /\ draw.is_indexed THEN [@ EXCEPT !.pc = "unlock"]
                      ELSE Continue(@)]
    /\ UNCHANGED <<g_state, mem, pc, header, i, cmd_log, last, calls, pica_tracing,
                   g_debug_context, jumped, args, nwrites, batch_id, draw, shader_runs>>
    /\ UNCHANGED vs_output_size

\* cached_vertex.lock.clear(release), after a hit and after the tag is stored.
WorkerUnlock == \E t \in DOMAIN workers :
    /\ Scheduled(t)
    /\ workers[t].pc = "unlock"
    /\ LET index == workers[t].index
       IN  vs_output' = Put(vs_output, CachedVertex(args, TRUE, index),
                            [Entry(index) EXCEPT !.lock = FALSE], NoEntry)
    /\ workers' = [workers EXCEPT ![t] = Continue(@)]
    /\ UNCHANGED <<g_state, mem, pc, header, i, cmd_log, last, calls, pica_tracing,
                   g_debug_context, jumped, args, nwrites, batch_id, draw, shader_runs>>
    /\ UNCHANGED vs_output_size

\* The head of the submission loop: SubmitIndex, or the yield loop left.
Consume ==
    /\ pc = "consume"
    /\ InlineLoopOver
    /\ draw.index < NumVertices(g_state)
    /\ IF FeedsIndex(g_state, draw.is_indexed, args.need_index)
       THEN /\ calls' = Append(calls, [call |-> "SubmitIndex", index |-> draw.index,
                                       vertex |-> VertexIndex(args, TRUE, draw.index)])
            /\ draw' = [draw EXCEPT !.index = NextVertex(@)]
            /\ UNCHANGED pc
       ELSE /\ SingleThread \/ Ready(Entry(draw.index), batch_id)
            /\ pc' = "read"
            /\ UNCHANGED <<calls, draw>>
    /\ UNCHANGED <<g_state, mem, header, i, cmd_log, last, pica_tracing, g_debug_context,
                   jumped, args, nwrites, vs_output, batch_id, workers, shader_runs>>
    /\ UNCHANGED vs_output_size

\* SubmitVertex(cached_vertex.output_attr) or SubmitVertex(cached_vertex.output_vertex, ...).
Submit ==
    /\ pc = "read"
    /\ LET output == Entry(draw.index).output
           assembled == AssemblerSubmit(g_state.primitive_assembler, output)
           submitted == Append(calls, [call |-> "SubmitVertex", index |-> draw.index,
                                       output |-> output])
       IN  IF UseGsYes(g_state)
           THEN /\ calls' = submitted
                /\ UNCHANGED g_state
           ELSE /\ calls' = submitted \o [k \in 1..Len(assembled.triangles) |->
                                             [call |-> "AddTriangle",
                                              triangle |-> assembled.triangles[k]]]
                /\ g_state' = [g_state EXCEPT !.primitive_assembler = assembled.pa]
    /\ draw' = [draw EXCEPT !.index = NextVertex(@)]
    /\ pc' = "consume"
    /\ UNCHANGED <<mem, header, i, cmd_log, last, pica_tracing, g_debug_context,
                   jumped, args, nwrites, vs_output, batch_id, workers, shader_runs>>
    /\ UNCHANGED vs_output_size

Joined_unwaited == TRUE

\* future.get() has returned for every future: every VSUnitLoop is over.
Joined == \A t \in DOMAIN workers : workers[t].pc = "done"

\* future.get() on every future, DrawTriangles, and the end of WritePicaReg.
DrawFinish ==
    /\ pc = "consume"
    /\ draw.index >= NumVertices(g_state)
    /\ Joined
    /\ calls' = calls \o <<[call |-> "DrawTriangles"],
                           [call |-> "NotifyPicaRegisterChanged", id |-> args.id]>>
    /\ pc' = "finished"
    /\ UNCHANGED <<g_state, mem, header, i, cmd_log, last, pica_tracing, g_debug_context,
                   jumped, args, nwrites>>
    /\ UNCHANGED drawvars

(***************************************************************************)
(* SpecDraw: one draw of DrawVertices vertices on a cache that is new, or  *)
(* holds the previous batch, with every interleaving of the pool threads.  *)
(***************************************************************************)

DrawVertices == 3
DrawVertexIds == {0, 1}

\* vs_output and batch_id before the draw: the first draw, a later draw, and the
\* draw whose batch_id overflows.
Caches(slots) ==
    {[id |-> U32(255, 255, 255, 255), cache |-> [x \in {} |-> NoEntry]]}
    \cup {[id |-> id,
           cache |-> [s \in slots |-> [batch |-> id, lock |-> FALSE,
                                       output |-> [earlier_batch |-> TRUE]]]] :
             id \in {U32(0, 0, 0, 5), U32(255, 255, 255, 255)}}

\* The slots an earlier batch left tagged: those of a batch as long as this one and
\* of an indexed one over DrawVertexIds; of the latter only before a batch that
\* fills the cache.
CachedSlots(n) == (IF n < InitialCacheSize THEN 0..(n - 1) ELSE {}) \cup DrawVertexIds

\* The index arrays in guest memory: every array over DrawVertexIds for a batch of
\* up to DrawVertices vertices, the alternating one for a longer batch.
IndexArrays(n) ==
    IF n <= DrawVertices THEN [1..n -> DrawVertexIds] ELSE {[k \in 1..n |-> (k - 1) % 2]}

\* The registers of a draw: the topology, use_gs and num_vertices as written, and
\* the assembler as the topology write leaves it, or with one vertex of an earlier
\* draw in it.
DrawState(mode, n) ==
    LET g == AfterWrites(InitState,
                 <<[id |-> REG_triangle_topology, value |-> U32(0, 0, mode.topology, 0),
                    mask |-> 15],
                   [id |-> REG_use_gs, value |-> ToWord(mode.use_gs), mask |-> 15],
                   [id |-> REG_num_vertices, value |-> ToWord(n), mask |-> 15]>>)
    IN  IF mode.pending
        THEN [g EXCEPT !.primitive_assembler =
                           AssemblerSubmit(@, [earlier_batch |-> TRUE]).pa]
        ELSE g

InitDrawOn(counts, minimums, cores, modes, sizes) ==
    /\ mem = <<>>
    /\ pc = "trigger"
    /\ header = NoHeader
    /\ i = 0
    /\ cmd_log = NoCommand
    /\ last = NoCall
    /\ calls = <<>>
    /\ pica_tracing = FALSE
    /\ g_debug_context = FALSE
    /\ jumped = FALSE
    /\ nwrites = 0
    /\ workers = <<>>
    /\ draw = NoDraw
    /\ shader_runs = [x \in {} |-> 0]
    /\ \E n \in counts, id \in {REG_trigger_draw, REG_trigger_draw_indexed},
          min_vertices_per_thread \in minimums, hardware_concurrency \in cores,
          need_index \in BOOLEAN, accepts \in BOOLEAN, mode \in modes :
          \E index_array \in IF id = REG_trigger_draw_indexed THEN IndexArrays(n) ELSE {<<>>},
             before \in Caches(CachedSlots(n)) :
             /\ need_index => mode.use_gs = 2
             /\ g_state = DrawState(mode, n)
             /\ args = [id |-> id, index_array |-> index_array, vertex_offset |-> 1,
                        min_vertices_per_thread |-> min_vertices_per_thread,
                        hardware_concurrency |-> hardware_concurrency,
                        need_index |-> need_index, accepts |-> accepts,
                        hw_shader_enabled |-> mode.hw_shader_enabled]
             /\ accepts => AccelerateDraw(g_state, args)
             /\ batch_id = before.id
             /\ vs_output = before.cache
             /\ vs_output_size \in sizes

\* Draws on a cache of the size it is constructed with.
InitDrawOf(counts, minimums, cores, modes) ==
    InitDrawOn(counts, minimums, cores, modes, {InitialCacheSize})

InitDraw ==
    InitDrawOf({DrawVertices}, {1, 2}, {1, 3},
               [topology : {0, 1}, use_gs : {0, 2}, hw_shader_enabled : {TRUE},
                pending : {FALSE}])

NextDraw ==
    \/ DrawTrigger
    \/ WorkerLock
    \/ WorkerCheck
    \/ WorkerRun
    \/ WorkerWrite
    \/ WorkerTag
    \/ WorkerUnlock
    \/ Consume
    \/ Submit
    \/ DrawFinish

SpecDraw == InitDraw /\ [][NextDraw]_vars

(***************************************************************************)
(* SpecDispatch: the draw trigger up to the dispatch, on batches of up to  *)
(* MaxDispatchVertices vertices and machines of 0 to 5 hardware threads.   *)
(***************************************************************************)

MaxDispatchVertices == 31

InitDispatch ==
    InitDrawOf({0, 1} \cup (MaxDispatchVertices - 2)..MaxDispatchVertices,
               {1, 10, 11}, {0, 1, 2, 5},
               [topology : 0..3, use_gs : {0, 1, 2}, hw_shader_enabled : BOOLEAN,
                pending : BOOLEAN])

SpecDispatch == InitDispatch /\ [][DrawTrigger]_vars

(***************************************************************************)
(* FairDraw: one draw of two vertices, inline or on two pool threads, with *)
(* the pool threads and the calling thread kept running: a thread that can *)
(* take a step is not held back for ever.                                  *)
(***************************************************************************)

FairVertices == {2}

InitFairDraw ==
    InitDrawOf(FairVertices, {1}, {1, 3},
               [topology : {1}, use_gs : {2}, hw_shader_enabled : {TRUE}, pending : {FALSE}])

WorkerStep ==
    WorkerLock \/ WorkerCheck \/ WorkerRun \/ WorkerWrite \/ WorkerTag \/ WorkerUnlock

CallerStep == DrawTrigger \/ Consume \/ Submit \/ DrawFinish

FairDraw ==
    InitFairDraw /\ [][NextDraw]_vars /\ WF_vars(WorkerStep) /\ WF_vars(CallerStep)

(***************************************************************************)
(* SpecBatches: draws of five vertices one after the other, inline or on   *)
(* one pool thread, with restart_primitive or triangle_topology written    *)
(* between two draws at will.                                              *)
(***************************************************************************)

BatchVertices == {5}
BatchWrites == 1..3
BatchTopologies == {U32(0, 0, 0, 0), U32(0, 0, 1, 0), U32(0, 0, 2, 0)}

InitBatches ==
    InitDrawOf(BatchVertices, {1}, {1, 2},
               [topology : {1}, use_gs : {0}, hw_shader_enabled : {TRUE}, pending : {FALSE}])

\* The next trigger_draw or trigger_draw_indexed write, after WritePicaReg has
\* returned from the one before.
DrawAgain ==
    /\ pc = "finished"
    /\ nwrites \in BatchWrites
    /\ pc' = "trigger"
    /\ UNCHANGED <<g_state, mem, header, i, cmd_log, last, calls, pica_tracing,
                   g_debug_context, jumped, args, nwrites>>
    /\ UNCHANGED drawvars

\* WritePicaReg(restart_primitive, ...) between two draws.
Restart ==
    /\ pc = "finished"
    /\ nwrites + 1 \in BatchWrites
    /\ DoWrite(g_state, REG_restart_primitive, ToWord(1), 15)
    /\ nwrites' = nwrites + 1
    /\ UNCHANGED <<mem, pc, header, i, cmd_log, pica_tracing, g_debug_context, jumped, args>>
    /\ UNCHANGED drawvars

\* WritePicaReg(triangle_topology, ...) between two draws.
Retopology ==
    /\ pc = "finished"
    /\ nwrites + 1 \in BatchWrites
    /\ \E value \in BatchTopologies, mask \in {2, 13, 15} :
          DoWrite(g_state, REG_triangle_topology, value, mask)
    /\ nwrites' = nwrites + 1
    /\ UNCHANGED <<mem, pc, header, i, cmd_log, pica_tracing, g_debug_context, jumped, args>>
    /\ UNCHANGED drawvars

NextBatches == NextDraw \/ DrawAgain \/ Restart \/ Retopology

SpecBatches == InitBatches /\ [][NextBatches]_vars

(***************************************************************************)
(* SpecResize: the start of a draw of as many vertices as the cache is     *)
(* constructed with, or one more, on a cache of that size or grown by an   *)
(* earlier draw; inline, on one or on two pool threads.  The threads are   *)
(* followed over the first ResizeSteps vertices of the batch.              *)
(***************************************************************************)

ResizeSteps == 2

InitResize ==
    InitDrawOn({InitialCacheSize, InitialCacheSize + 1}, {1, InitialCacheSize}, {1, 3},
               [topology : {1}, use_gs : {0}, hw_shader_enabled : {TRUE}, pending : {FALSE}],
               {InitialCacheSize, InitialCacheSize + 2})

Early ==
    /\ draw.index < ResizeSteps
    /\ \A t \in DOMAIN workers : workers[t].index < ResizeSteps

NextResize ==
    \/ DrawTrigger
    \/ Early /\ WorkerLock
    \/ Early /\ WorkerCheck
    \/ Early /\ WorkerRun
    \/ Early /\ WorkerWrite
    \/ Early /\ WorkerTag
    \/ Early /\ WorkerUnlock
    \/ Early /\ Consume
    \/ Early /\ Submit

SpecResize == InitResize /\ [][NextResize]_vars

(***************************************************************************)
(* Claims on the command-list walk (Spec, FairSpec)                        *)
(***************************************************************************)

\* C3: a write to an id >= NUM_REGS leaves all of g_state as it was, makes no
\* collaborator call, and leaves the walk where a write leaves it: at the next
\* extra word while the command has one, else at the loop test, and the walk returns
\* only with the list used up.
C3_InvalidWriteIgnored ==
    last.id >= NUM_REGS =>
        /\ g_state = last.pre
        /\ calls = <<>>
        /\ i < header.extra_data_length =>
             /\ pc \in {"extra", "fault"}
             /\ pc = "fault" => ~Mapped(g_state.cmd_list.current_ptr)
        /\ i >= header.extra_data_length => pc \in {"loop", "done", "fault"}
        /\ pc = "done" => ~InList(g_state.cmd_list)

\* The sweep wrote 0x2FF, then 0x300 was refused, and the walk stands at the next
\* extra word.
C3_Witness ==
    /\ last.id = NUM_REGS
    /\ pc = "extra"
    /\ Len(cmd_log.writes) = 2
    /\ cmd_log.writes[1].id = NUM_REGS - 1
    /\ Mapped(g_state.cmd_list.current_ptr)
    /\ g_state = last.pre

\* C5: a command makes 1 + extra_data_length writes, all with the header's mask: the
\* first of the value word to cmd_id, the k-th extra word to cmd_id (not grouped) or
\* cmd_id + k + 1 (grouped), the words taken in list order; the next command starts
\* only after them.
C5_WritesOfCommand ==
    LET ws == cmd_log.writes
        n == Len(ws)
    IN  n > 0 =>
        /\ pc \in {"loop", "done"} => n = 1 + header.extra_data_length
        /\ pc = "extra" => n = 1 + i /\ i < header.extra_data_length
        /\ n <= 1 + header.extra_data_length
        /\ nwrites = n
        /\ ws[1] = [id |-> header.cmd_id, value |-> mem[cmd_log.value_at + 1],
                    mask |-> header.parameter_mask, at |-> cmd_log.value_at]
        /\ \A k \in 2..n :
             /\ ws[k].id = header.cmd_id + (IF header.group_commands = 1 THEN k - 1 ELSE 0)
             /\ ws[k].mask = header.parameter_mask
             /\ ws[k].value = mem[ws[k].at + 1]
             /\ ~IsTriggerReg(ws[k - 1].id) =>
                  ws[k].at = (IF k = 2 THEN cmd_log.value_at + 2 ELSE ws[k - 1].at + 1)

\* A grouped command with two extra words wrote cmd_id, cmd_id + 1, cmd_id + 2.
C5_Witness ==
    /\ pc = "loop"
    /\ header.group_commands = 1 /\ header.extra_data_length = 2
    /\ Len(cmd_log.writes) = 3
    /\ cmd_log.writes[3].id = header.cmd_id + 2
    /\ cmd_log.writes[3].at = cmd_log.value_at + 3

\* C6: the value word of every command lies at an even offset from the list head and
\* its header is the next word; from an odd offset exactly one word is skipped, from
\* an even offset none.
C6_ValueWordAligned ==
    Len(cmd_log.writes) > 0 =>
        /\ (cmd_log.value_at - cmd_log.head) % 2 = 0
        /\ cmd_log.value_at =
             cmd_log.from + (IF (cmd_log.from - cmd_log.head) % 2 = 1 THEN 1 ELSE 0)
        /\ header = CommandHeader(mem[cmd_log.value_at + 2])

\* After a command with one extra word the cursor stood at offset 3; the word there
\* was skipped and the next value word read at offset 4.
C6_Witness ==
    /\ Len(cmd_log.writes) > 0
    /\ cmd_log.head = 0
    /\ cmd_log.from = 3
    /\ cmd_log.value_at = 4
    /\ args.size = 20

\* C7 as stated: the walk of every list ends (a fault counted as an end).
C7_Terminates == <>(pc \in {"done", "fault"})

\* C7 amended: a walk during which no command-buffer trigger register is written
\* ends: it returns with the cursor at or past head + length, or faults on a read
\* outside guest memory.
C7_TerminatesWithoutJump ==
    <>((pc = "done" /\ ~InList(g_state.cmd_list)) \/ pc = "fault" \/ jumped)

\* A walk of a four-word list that wrote no trigger register made its second
\* command from offset 2 and returned with the cursor at head + length.
C7_Witness ==
    /\ pc = "done"
    /\ ~jumped
    /\ args.size = 16
    /\ cmd_log.from = 2
    /\ g_state.cmd_list.current_ptr = g_state.cmd_list.head_ptr + g_state.cmd_list.length

(***************************************************************************)
(* Claims on the register write path (SpecWrite)                           *)
(***************************************************************************)

\* Bit k - 1 of the 4-bit mask selects byte k of the word.
Selected(mask, k) == (mask \div (2 ^ (k - 1))) % 2 = 1

\* C1: after WritePicaReg(id, v, m) with id < NUM_REGS, every byte of reg[id] the
\* mask selects is the byte of v and every other byte is the byte reg[id] held before.
C1_MaskedWrite ==
    last.id \in 0..(NUM_REGS - 1) =>
        \A k \in 1..4 :
            Reg(g_state, last.id)[k] =
                IF Selected(last.mask, k) THEN last.value[k] ELSE Reg(last.pre, last.id)[k]

\* A write of 0x12345678 under mask 0b0101 over 0xFFFFFFFF left 0xFF34FF78.
C1_Witness ==
    /\ pc = "rewrite"
    /\ last.id = 256 /\ last.mask = 5
    /\ last.value = U32(18, 52, 86, 120)
    /\ Reg(last.pre, 256) = U32(255, 255, 255, 255)
    /\ Reg(g_state, 256) = U32(255, 52, 255, 120)

\* The registers whose case of the switch advances an index or offset register.
IsDataPort(id) ==
    \E unit \in Units : IsUniformSetValueReg(unit, id) \/ IsProgramSetWordReg(unit, id)

\* C2 as stated: for every valid id, the register array after two identical writes
\* is the register array after one.
C2_RewriteKeepsRegArray ==
    (pc = "written" /\ last.id < NUM_REGS) => g_state.regs = last.pre.regs

\* C2 amended: the second of two identical writes leaves reg[id] as the first left it,
\* and leaves the whole register array so unless id is a data port.
C2_RewriteKeepsReg ==
    (pc = "written" /\ last.id < NUM_REGS) =>
        /\ Reg(g_state, last.id) = Reg(last.pre, last.id)
        /\ ~IsDataPort(last.id) => g_state.regs = last.pre.regs

\* The second write of a program word kept reg[id] and advanced program.offset again.
C2_Witness ==
    /\ pc = "written"
    /\ last.id = REG_vs_program_set_word
    /\ last.mask = 5
    /\ Reg(g_state, last.id) = Reg(last.pre, last.id)
    /\ Reg(g_state, REG_vs_program_offset) = Inc32(Reg(last.pre, REG_vs_program_offset))

\* The calls of the last WritePicaReg that hand the trace (id, mask, value).
TraceCalls ==
    {k \in 1..Len(calls) : calls[k].call = "OnPicaRegWrite"}
DebugCalls ==
    {k \in 1..Len(calls) : calls[k].call = "OnEvent"}

\* C4 as stated: after every call, valid or not, an enabled trace is handed
\* (id, mask, value) and a present debug context gets an event.
C4_AlwaysNotified ==
    last.id >= 0 =>
        /\ pica_tracing =>
             \E k \in TraceCalls : calls[k].id = last.id % 65536 /\ calls[k].mask = last.mask
        /\ g_debug_context => DebugCalls # {}

\* C4 amended: after a call with a valid id an enabled trace is handed, once and
\* first, (id, mask, reg[id] as the write left it) and a present debug context gets
\* its events; a call with an invalid id notifies neither.
C4_NotifiedWhenValid ==
    /\ (last.id >= 0 /\ last.id < NUM_REGS) =>
         /\ pica_tracing =>
              /\ TraceCalls = {1}
              /\ calls[1] = [call |-> "OnPicaRegWrite", id |-> last.id, mask |-> last.mask,
                             value |-> Reg(g_state, last.id)]
         /\ ~pica_tracing => TraceCalls = {}
         /\ g_debug_context =>
              \E k \in DebugCalls : calls[k].event = "PicaCommandLoaded" /\ calls[k].id = last.id
         /\ ~g_debug_context => DebugCalls = {}
    /\ last.id >= NUM_REGS => calls = <<>>

\* A traced, debugged partial write whose resulting value is neither the old nor the
\* written value.
C4_Witness ==
    /\ pica_tracing /\ g_debug_context
    /\ last.id = NUM_REGS - 1 /\ last.mask = 6
    /\ Len(calls) = 4
    /\ calls[1].value = Reg(g_state, last.id)
    /\ calls[1].value # last.value
    /\ calls[1].value # Reg(last.pre, last.id)


(***************************************************************************)
(* Claims on the float-uniform loader (SpecUniform, SpecFill)              *)
(***************************************************************************)

\* The last call wrote a word to the set_value port of the unit under way.
WroteUniformWord == pc \in {"feed", "fill"} /\ IsUniformSetValueReg(args.unit, last.id)

\* g_state before the last call: the staging counter, the staging buffer, the setup
\* word, and the count of staged words the last call brought the staging to.
PreCounter == last.pre[FloatRegsCounter(args.unit)]
PreBuffer == last.pre[UniformWriteBuffer(args.unit)]
PreSetup == Reg(last.pre, UniformSetupReg(args.unit))
Staged == PreCounter + 1

\* The same after the last call, and the uniforms of both units.
PostCounter == g_state[FloatRegsCounter(args.unit)]
PostBuffer == g_state[UniformWriteBuffer(args.unit)]
PostSetup == Reg(g_state, UniformSetupReg(args.unit))
UniformsKept == g_state.vs.uniforms_f = last.pre.vs.uniforms_f
                /\ g_state.gs.uniforms_f = last.pre.gs.uniforms_f

\* C8: a write to the set_value port stores its word at the staging position and
\* flushes exactly when the words staged have reached 4 in 32-bit format or 3 in
\* packed format (4 in packed format too, when the format was switched on a staging
\* of three words); a write that does not flush adds one to the counter and changes
\* no uniform and no setup word; a flush, accepted or rejected, leaves the counter 0.
C8_FlushOnlyWhenFull ==
    WroteUniformWord =>
        LET full == IF IsFloat32(PreSetup) THEN Staged = 4 ELSE Staged \in {3, 4}
        IN  /\ Staged \in 1..4
            /\ PostBuffer = [PreBuffer EXCEPT ![Staged] = last.value]
            /\ ~full => PostCounter = Staged /\ UniformsKept /\ PostSetup = PreSetup
            /\ full => PostCounter = 0
            /\ ~(UniformsKept /\ PostSetup = PreSetup) => full

\* The third packed word flushed: the counter went from 2 to 0 and a uniform changed.
C8_Witness ==
    /\ WroteUniformWord
    /\ ~IsFloat32(PreSetup)
    /\ PreCounter = 2 /\ PostCounter = 0
    /\ ~UniformsKept
    /\ nwrites = 3

\* The words a flush takes in the format of the setup word.
WordsPerFlush == IF IsFloat32(PostSetup) THEN 4 ELSE 3

\* C9: with the index set to 0 and the format left alone, after n words the index is
\* the number of flushes, n / words-per-flush, up to 96 and 96 from then on, and the
\* uniforms written are those below it; a write moves the index by one when it
\* flushes with the index below 96 and not at all otherwise, and a flush with the
\* index at 96 writes no uniform.
C9_IndexCountsFlushes ==
    pc = "fill" =>
        LET flushes == nwrites \div WordsPerFlush
            index == UniformIndex(PostSetup)
            before == UniformIndex(PreSetup)
            flushed == nwrites % WordsPerFlush = 0
        IN  /\ index = (IF flushes <= MaxFloatUniforms THEN flushes ELSE MaxFloatUniforms)
            /\ DOMAIN g_state[args.unit].uniforms_f = 0..(index - 1)
            /\ WroteUniformWord =>
                 /\ index = before + (IF flushed /\ before < MaxFloatUniforms THEN 1 ELSE 0)
                 /\ (flushed /\ before >= MaxFloatUniforms) => UniformsKept
                 /\ ~flushed => UniformsKept

\* The 97th flush was rejected: the index was 96 before it and is 96 after it.
C9_Witness ==
    /\ pc = "fill"
    /\ WroteUniformWord
    /\ nwrites = 97 * WordsPerFlush
    /\ UniformIndex(PreSetup) = MaxFloatUniforms
    /\ UniformIndex(PostSetup) = MaxFloatUniforms
    /\ PostCounter = 0
    /\ UniformsKept

\* C10: an accepted flush in 32-bit format stores the four staged words, each
\* converted from float32, into the uniform at the index: the first staged word as w,
\* the second as z, the third as y and the fourth (the word of the flushing write) as x.
C10_ComponentsReversed ==
    (WroteUniformWord /\ IsFloat32(PreSetup) /\ Staged = 4
        /\ UniformIndex(PreSetup) < MaxFloatUniforms) =>
        LET uniform == Get(g_state[args.unit].uniforms_f, UniformIndex(PreSetup), ZeroVec4)
        IN  /\ uniform.w = [from |-> "float32", bits |-> PreBuffer[1]]
            /\ uniform.z = [from |-> "float32", bits |-> PreBuffer[2]]
            /\ uniform.y = [from |-> "float32", bits |-> PreBuffer[3]]
            /\ uniform.x = [from |-> "float32", bits |-> last.value]

\* Staged 1.0f, 1.0f, 0x12345678, 0x12345678 in this order: w and z hold 1.0f, y and
\* x hold 0x12345678.
C10_Witness ==
    /\ WroteUniformWord /\ IsFloat32(PreSetup) /\ Staged = 4
    /\ PreBuffer[1] = U32(63, 128, 0, 0) /\ PreBuffer[2] = U32(63, 128, 0, 0)
    /\ PreBuffer[3] = U32(18, 52, 86, 120) /\ last.value = U32(18, 52, 86, 120)
    /\ g_state[args.unit].uniforms_f[0].w.bits = U32(63, 128, 0, 0)
    /\ g_state[args.unit].uniforms_f[0].x.bits = U32(18, 52, 86, 120)


(***************************************************************************)
(* Claims on the packed decode (SpecDecode)                                *)
(***************************************************************************)

\* The vector the flush stored at index 0.
Decoded ==
    IF pc = "uniform" THEN Get(g_state.vs.uniforms_f, 0, ZeroVec4)
    ELSE Get(g_state.input_default_attributes, 0, ZeroVec4)

\* The three words that four 24-bit values (their bytes, low byte first) were cut from.
Repack(v) ==
    << <<v.z.bits[3], v.w.bits[1], v.w.bits[2], v.w.bits[3]>>,
       <<v.y.bits[2], v.y.bits[3], v.z.bits[1], v.z.bits[2]>>,
       <<v.x.bits[1], v.x.bits[2], v.x.bits[3], v.y.bits[1]>> >>

\* C11: the flush of three staged words, as a packed float uniform and as a default
\* attribute, makes each component by FromRaw of a value below 2^24: w is bits 31..8
\* of word 0; z is bits 7..0 of word 0 over bits 31..16 of word 1; y is bits 15..0 of
\* word 1 over bits 31..24 of word 2; x is bits 23..0 of word 2.  The three words are
\* recovered from the four values: no staged bit is lost or used twice.
C11_PackedDecode ==
    pc \in {"uniform", "attribute"} =>
        LET b == args.buffer
        IN  /\ \A c \in {"x", "y", "z", "w"} : Decoded[c].from = "raw" /\ Decoded[c].bits[4] = 0
            /\ Decoded.w.bits = <<b[1][2], b[1][3], b[1][4], 0>>
            /\ Decoded.z.bits = <<b[2][3], b[2][4], b[1][1], 0>>
            /\ Decoded.y.bits = <<b[3][4], b[2][1], b[2][2], 0>>
            /\ Decoded.x.bits = <<b[3][1], b[3][2], b[3][3], 0>>
            /\ Repack(Decoded) = b

\* 0x01020304, 0xA1B2C3D4, 0x80000001 decoded as a uniform: w = 0x010203,
\* z = 0x04A1B2, y = 0xC3D480, x = 0x000001.
C11_Witness ==
    /\ pc = "uniform"
    /\ args.buffer = <<U32(1, 2, 3, 4), U32(161, 178, 195, 212), U32(128, 0, 0, 1)>>
    /\ Decoded.w.bits = U32(0, 1, 2, 3)
    /\ Decoded.z.bits = U32(0, 4, 161, 178)
    /\ Decoded.y.bits = U32(0, 195, 212, 128)
    /\ Decoded.x.bits = U32(0, 0, 0, 1)


(***************************************************************************)
(* Claims on the program and swizzle loaders (SpecProgram)                 *)
(***************************************************************************)

\* The geometry unit's buffers and dirty flags before and after the last call.
GsBuffersKept ==
    /\ g_state.gs.program_code = last.pre.gs.program_code
    /\ g_state.gs.swizzle_data = last.pre.gs.swizzle_data
    /\ g_state.gs.program_code_dirty = last.pre.gs.program_code_dirty
    /\ g_state.gs.swizzle_data_dirty = last.pre.gs.swizzle_data_dirty

\* The flag was clear when the last call was made.
SharedBefore == Reg(last.pre, REG_gs_unit_exclusive_configuration) = ZeroWord

\* C12: a write to a vertex-unit program port with the offset below 512 stores the
\* word at the offset in the vertex unit's program; with the exclusive flag clear it
\* stores the same word at the same offset in the geometry unit's program, marks it
\* dirty and changes no other word of it, and with the flag set it leaves the
\* geometry unit's program and swizzle buffers and flags as they were.  The same for
\* a vertex-unit swizzle port with the offset below the swizzle size.
C12_MirroredToGeometryUnit ==
    /\ (pc = "load" /\ IsProgramSetWordReg("vs", last.id)
            /\ ~GE32(Reg(last.pre, REG_vs_program_offset), 512)) =>
         LET at == Lo16(Reg(last.pre, REG_vs_program_offset))
         IN  /\ Get(g_state.vs.program_code, at, ZeroWord) = last.value
             /\ SharedBefore =>
                  /\ Get(g_state.gs.program_code, at, ZeroWord) = last.value
                  /\ g_state.gs.program_code_dirty
                  /\ \A k \in DOMAIN g_state.gs.program_code \cup DOMAIN last.pre.gs.program_code :
                       k # at => Get(g_state.gs.program_code, k, ZeroWord)
                                    = Get(last.pre.gs.program_code, k, ZeroWord)
                  /\ g_state.gs.swizzle_data = last.pre.gs.swizzle_data
             /\ ~SharedBefore => GsBuffersKept
    /\ (pc = "load" /\ IsSwizzleSetWordReg("vs", last.id)
            /\ ~GE32(Reg(last.pre, REG_vs_swizzle_offset), SwizzleDataSize)) =>
         LET at == Lo16(Reg(last.pre, REG_vs_swizzle_offset))
         IN  /\ Get(g_state.vs.swizzle_data, at, ZeroWord) = last.value
             /\ SharedBefore =>
                  /\ Get(g_state.gs.swizzle_data, at, ZeroWord) = last.value
                  /\ g_state.gs.swizzle_data_dirty
                  /\ \A k \in DOMAIN g_state.gs.swizzle_data \cup DOMAIN last.pre.gs.swizzle_data :
                       k # at => Get(g_state.gs.swizzle_data, k, ZeroWord)
                                    = Get(last.pre.gs.swizzle_data, k, ZeroWord)
                  /\ g_state.gs.program_code = last.pre.gs.program_code
             /\ ~SharedBefore => GsBuffersKept

\* With the flag clear a vertex-unit program word at offset 511 replaced the word the
\* geometry unit had loaded there itself.
C12_Witness ==
    /\ pc = "load"
    /\ last.id = REG_vs_program_set_word
    /\ SharedBefore
    /\ Reg(last.pre, REG_vs_program_offset) = ToWord(511)
    /\ Get(last.pre.gs.program_code, 511, ZeroWord) = U32(63, 128, 0, 0)
    /\ last.value = U32(18, 52, 86, 120)
    /\ Get(g_state.gs.program_code, 511, ZeroWord) = U32(18, 52, 86, 120)


(***************************************************************************)
(* Claims on the default-attribute loader (SpecAttribute, SpecImmediate)   *)
(***************************************************************************)

\* The last call wrote a word to the default-attribute port.
WroteAttributeWord ==
    pc \in {"attributes", "immediate"} /\ IsDefaultAttributeSetValueReg(last.id)

\* The three words staged once the last call has stored its own.
AttributeWords ==
    [last.pre.default_attr_write_buffer EXCEPT ![last.pre.default_attr_counter + 1] = last.value]

\* The default-attribute index before and after the last call.
PreAttributeIndex == Reg(last.pre, REG_vs_default_attributes_index)
PostAttributeIndex == Reg(g_state, REG_vs_default_attributes_index)

\* The calls of the last write that run the vertex shader and that submit a vertex.
RunCalls == {k \in 1..Len(calls) : calls[k].call = "Run"}
SubmitCalls == {k \in 1..Len(calls) : calls[k].call = "SubmitVertex"}

\* C13: a write to the default-attribute port flushes exactly when it stages the
\* third word since the last flush or index write; a write that does not flush only
\* stages its word.  A flush leaves the counter 0; with the index below 15 it stores
\* the attribute decoded from the three words in table slot [index], changes no other
\* slot, adds one to the index and leaves the immediate vertex alone; with the index
\* 15 it changes neither the table nor the index and stores the attribute in the
\* immediate vertex at the cursor.
C13_AttributeFlush ==
    WroteAttributeWord =>
        LET staged == last.pre.default_attr_counter + 1
            table == g_state.input_default_attributes
        IN  /\ staged \in 1..3
            /\ g_state.default_attr_write_buffer = AttributeWords
            /\ staged < 3 =>
                 /\ g_state.default_attr_counter = staged
                 /\ table = last.pre.input_default_attributes
                 /\ PostAttributeIndex = PreAttributeIndex
                 /\ g_state.immediate = last.pre.immediate
                 /\ RunCalls = {} /\ SubmitCalls = {}
            /\ staged = 3 =>
                 /\ g_state.default_attr_counter = 0
                 /\ ~GE32(PreAttributeIndex, 15) =>
                      /\ Repack(Get(table, Lo16(PreAttributeIndex), ZeroVec4)) = AttributeWords
                      /\ \A k \in DOMAIN table \cup DOMAIN last.pre.input_default_attributes :
                           k # Lo16(PreAttributeIndex) =>
                             Get(table, k, ZeroVec4)
                               = Get(last.pre.input_default_attributes, k, ZeroVec4)
                      /\ PostAttributeIndex = Inc32(PreAttributeIndex)
                      /\ g_state.immediate = last.pre.immediate
                      /\ RunCalls = {} /\ SubmitCalls = {}
                 /\ PreAttributeIndex = ToWord(15) =>
                      /\ table = last.pre.input_default_attributes
                      /\ PostAttributeIndex = PreAttributeIndex
                      /\ Repack(Get(g_state.immediate.input_vertex,
                                    last.pre.immediate.current_attribute, ZeroVec4))
                           = AttributeWords

\* The third word at index 14 filled slot 14 and moved the index to 15.
C13_Witness ==
    /\ WroteAttributeWord
    /\ last.pre.default_attr_counter = 2
    /\ PreAttributeIndex = ToWord(14)
    /\ PostAttributeIndex = ToWord(15)
    /\ 14 \in DOMAIN g_state.input_default_attributes
    /\ g_state.immediate = last.pre.immediate

\* C14: with the index at 15, the cursor at 0 and max_input_attrib_index M left
\* alone, after n words the cursor is (n / 3) modulo M + 1.  A write that flushes
\* stores the attribute at the cursor; with the cursor below M it adds one to the
\* cursor and neither runs the shader nor submits a vertex; otherwise it sets the
\* cursor to 0, runs the vertex shader once on the immediate vertex and submits its
\* output once.  A write that does not flush does neither.  So the shader runs at
\* exactly every (M + 1)-th flush.
C14_ImmediateVertex ==
    (pc = "immediate" /\ WroteAttributeWord) =>
        LET max == MaxInputAttribIndex(g_state)
            flushes == nwrites \div 3
            flushed == nwrites % 3 = 0
            before == last.pre.immediate.current_attribute
            cursor == g_state.immediate.current_attribute
            vertex == flushed /\ flushes % (max + 1) = 0
        IN  /\ cursor = flushes % (max + 1)
            /\ flushed =>
                 /\ Repack(Get(g_state.immediate.input_vertex, before, ZeroVec4))
                      = AttributeWords
                 /\ before < max => cursor = before + 1 /\ ~vertex
                 /\ before >= max => cursor = 0 /\ vertex
            /\ ~flushed => g_state.immediate = last.pre.immediate
            /\ vertex =>
                 /\ Cardinality(RunCalls) = 1 /\ Cardinality(SubmitCalls) = 1
                 /\ \A r \in RunCalls, v \in SubmitCalls :
                      /\ r < v
                      /\ calls[r].input = g_state.immediate.input_vertex
                      /\ calls[v].output = Run(calls[r].input)
            /\ ~vertex => RunCalls = {} /\ SubmitCalls = {}

\* With M = 2 the ninth flush completed the third vertex: the cursor went from 2 to 0
\* and the shader ran once.
C14_Witness ==
    /\ pc = "immediate" /\ WroteAttributeWord
    /\ MaxInputAttribIndex(g_state) = 2
    /\ nwrites = 27
    /\ last.pre.immediate.current_attribute = 2
    /\ g_state.immediate.current_attribute = 0
    /\ Cardinality(RunCalls) = 1
    /\ DOMAIN g_state.immediate.input_vertex = 0..2

(***************************************************************************)
(* Claims on the draw trigger (SpecDraw, SpecDispatch)                     *)
(***************************************************************************)

IndexedDraw == args.id = REG_trigger_draw_indexed
Accelerated == pc = "finished" /\ calls[1].call = "AccelerateDrawBatch" /\ calls[1].accepted
DrawStarted == pc \in {"consume", "read", "finished"} /\ ~Accelerated
DrawnVertices == {args.index_array[k] : k \in 1..Len(args.index_array)}
Submissions == SelectSeq(calls, LAMBDA c : c.call = "SubmitVertex")

\* C15: in an indexed draw, whatever the interleaving of the pool threads and on
\* the inline path too, Run is called at most once for a vertex index; when the
\* draw is over and was not accelerated, exactly once for each index of the index
\* array and for no other; and two submissions of the same vertex index pass the
\* same output.
C15_ShadedOncePerIndex ==
    IndexedDraw =>
        /\ \A v \in DOMAIN shader_runs : shader_runs[v] <= 1
        /\ (pc = "finished" /\ ~Accelerated) =>
               /\ DOMAIN shader_runs = DrawnVertices
               /\ \A v \in DrawnVertices : shader_runs[v] = 1
        /\ \A j, k \in 1..Len(Submissions) :
               VertexIndex(args, TRUE, Submissions[j].index)
                   = VertexIndex(args, TRUE, Submissions[k].index)
               => Submissions[j].output = Submissions[k].output

\* An indexed draw on two pool threads is over; its first and third index are the
\* same vertex, shaded once and submitted twice.
C15_Witness ==
    /\ IndexedDraw
    /\ pc = "finished"
    /\ draw.vs_threads = 2
    /\ args.index_array[1] = args.index_array[3]
    /\ args.index_array[2] # args.index_array[1]
    /\ shader_runs[args.index_array[1]] = 1
    /\ Len(Submissions) = 3
    /\ Submissions[1].output = Submissions[3].output
    /\ Submissions[1].output = Run(LoadVertex(args.index_array[1]))

Fed == SelectSeq(calls, LAMBDA c : c.call \in {"SubmitVertex", "SubmitIndex"})

\* C16: the calling thread feeds the loop indices in the order 0, 1, ...,
\* num_vertices - 1, each once, whatever order the pool threads shade them in: the
\* k-th vertex or index fed is that of loop index k - 1, the loop stands at the
\* number fed so far, and a draw that is over has fed num_vertices of them.
C16_FedInLoopOrder ==
    DrawStarted =>
        /\ \A k \in 1..Len(Fed) : Fed[k].index = k - 1
        /\ pc # "finished" => draw.index = Len(Fed)
        /\ pc = "finished" => Len(Fed) = NumVertices(g_state)

\* A draw without index array on two pool threads: loop index 2 is shaded and
\* tagged before loop index 1 is, and loop index 0 is the one vertex fed so far.
C16_Witness ==
    /\ DrawStarted
    /\ ~IndexedDraw
    /\ draw.vs_threads = 2
    /\ Entry(2).batch = batch_id
    /\ Entry(1).batch # batch_id
    /\ Len(Fed) = 1
    /\ Fed[1].index = 0

ShadedOutput(index) == Run(LoadVertex(VertexIndex(args, draw.is_indexed, index)))

\* C17: when the vertex shader runs on pool threads, an entry whose tag is the
\* current batch_id holds the complete output of this batch for its vertex (the
\* tag is stored after the output), the calling thread reads an entry only while
\* its tag is the current batch_id, and every output it has submitted is such a
\* complete output of this batch: none of an earlier batch, none half written.
C17_ReadsTaggedOutput ==
    (DrawStarted /\ ~SingleThread) =>
        /\ \A index \in 0..(NumVertices(g_state) - 1) :
               Entry(index).batch = batch_id => Entry(index).output = ShadedOutput(index)
        /\ pc = "read" => Entry(draw.index).batch = batch_id
        /\ \A k \in 1..Len(Submissions) :
               Submissions[k].output = ShadedOutput(Submissions[k].index)

\* On pool threads, over a cache that holds the previous batch: the calling thread
\* is about to read the tagged entry of loop index 0 while another entry is half
\* written and a third still holds the output of the previous batch.
C17_Witness ==
    /\ DrawStarted
    /\ draw.vs_threads = 2
    /\ batch_id = U32(0, 0, 0, 6)
    /\ pc = "read"
    /\ draw.index = 0
    /\ Entry(0).output = ShadedOutput(0)
    /\ \E index \in 1..2 : Entry(index).output = PartialOutput(VertexIndex(args, draw.is_indexed, index))
    /\ \E index \in 1..2 : Entry(index).output = [earlier_batch |-> TRUE]

\* What a draw feeds, as the registers and the index array alone fix it: nothing of
\* vs_threads, min_vertices_per_thread or hardware_concurrency enters.
FeedOf(a, num_vertices) ==
    [k \in 1..num_vertices |->
        LET vertex == VertexIndex(a, a.id = REG_trigger_draw_indexed, k - 1)
        IN  IF a.id = REG_trigger_draw_indexed /\ a.need_index
            THEN [call |-> "SubmitIndex", index |-> k - 1, vertex |-> vertex]
            ELSE [call |-> "SubmitVertex", index |-> k - 1,
                  output |-> Run(LoadVertex(vertex))]]

\* C18: a draw that is not accelerated feeds the same sequence of vertices on the
\* inline path (vs_threads = 0) and on the pool (vs_threads >= 1), whatever the
\* interleaving and whatever the cache held before: the sequence FeedOf, which the
\* number of threads does not enter.  The triangles are what the primitive
\* assembler makes of that sequence.
C18_SameFeedOnEveryPath ==
    (pc = "finished" /\ ~Accelerated) => Fed = FeedOf(args, NumVertices(g_state))

\* A draw on two pool threads is over, on a cache that held the previous batch, and
\* has fed the three vertices of FeedOf.
C18_Witness ==
    /\ pc = "finished"
    /\ ~Accelerated
    /\ draw.vs_threads = 2
    /\ batch_id = U32(0, 0, 0, 6)
    /\ Len(Fed) = 3
    /\ Fed = FeedOf(args, 3)
    /\ Fed[3].call = "SubmitVertex"

\* The count of the claim, in the integers.
WorkerCount ==
    LET quotient == NumVertices(g_state) \div args.min_vertices_per_thread
    IN  IF quotient < args.hardware_concurrency - 1 THEN quotient
        ELSE args.hardware_concurrency - 1

\* C19: a draw that is not accelerated pushes W = min(num_vertices /
\* min_vertices_per_thread, hardware_concurrency - 1) tasks to the pool, with thread
\* ids 0 to W - 1; when W is not positive it pushes none and the vertex loop runs
\* inline.
C19_WorkerCount ==
    DrawStarted =>
        IF WorkerCount > 0
        THEN draw.vs_threads = WorkerCount /\ DOMAIN workers = 0..(WorkerCount - 1)
        ELSE SingleThread /\ DOMAIN workers = {0}

\* C20, as stated: with num_vertices = 30 and min_vertices_per_thread = 10, five
\* tasks are pushed on a machine of 5 hardware threads, none on a machine of 1.
C20_FiveWorkers ==
    (DrawStarted /\ NumVertices(g_state) = 30 /\ args.min_vertices_per_thread = 10) =>
        /\ args.hardware_concurrency = 5 => draw.vs_threads = 5
        /\ args.hardware_concurrency = 1 => draw.vs_threads = 0

\* C20, amended: with num_vertices = 30 and min_vertices_per_thread = 10, three
\* tasks (min(30 / 10, 5 - 1)) are pushed on a machine of 5 hardware threads, with
\* thread ids 0, 1, 2, each at the loop index of its id; on a machine of 1 none is
\* pushed and the one loop is the inline one.
C20_ThreeWorkers ==
    (DrawStarted /\ NumVertices(g_state) = 30 /\ args.min_vertices_per_thread = 10) =>
        /\ args.hardware_concurrency = 5 =>
               /\ draw.vs_threads = 3
               /\ DOMAIN workers = {0, 1, 2}
               /\ \A t \in DOMAIN workers : workers[t] = [pc |-> "head", index |-> t]
        /\ args.hardware_concurrency = 1 =>
               /\ draw.vs_threads = 0
               /\ DOMAIN workers = {0}

\* The trigger of the scenario has been written on the machine of 5 hardware
\* threads, and three tasks are in the pool.
C20_Witness ==
    /\ pc = "consume"
    /\ NumVertices(g_state) = 30
    /\ args.min_vertices_per_thread = 10
    /\ args.hardware_concurrency = 5
    /\ draw.vs_threads = 3
    /\ batch_id = U32(0, 0, 0, 6)

Asked == \E k \in 1..Len(calls) : calls[k].call = "AccelerateDrawBatch"
DrawWritten == pc \in {"consume", "read", "finished"}

\* C21, as stated: AccelerateDrawBatch is asked only if the assembler was empty,
\* use_gs was No, and, with the Strip or the List topology, num_vertices is a
\* multiple of 3.
C21_AskedOnStripOrList ==
    (DrawWritten /\ Asked) =>
        /\ IsEmpty(last.pre.primitive_assembler)
        /\ UseGsNo(last.pre)
        /\ last.pre.primitive_assembler.topology \in {"Strip", "List"}
               => NumVertices(last.pre) % 3 = 0

\* C21, amended: AccelerateDrawBatch is asked only if the assembler was empty,
\* use_gs was No, and, with the Shader or the List topology, num_vertices is a
\* multiple of 3; with Strip and Fan the number of vertices does not matter.
C21_AskedOnShaderOrList ==
    (DrawWritten /\ Asked) =>
        /\ IsEmpty(last.pre.primitive_assembler)
        /\ UseGsNo(last.pre)
        /\ last.pre.primitive_assembler.topology \in {"Shader", "List"}
               => NumVertices(last.pre) % 3 = 0

\* The rasterizer was asked for a List draw of 30 vertices.
C21_Witness ==
    /\ DrawWritten
    /\ Asked
    /\ last.pre.primitive_assembler.topology = "List"
    /\ NumVertices(last.pre) = 30

Accepted == Asked /\ calls[1].accepted
SoftwareCalls ==
    {"Run", "SubmitVertex", "SubmitIndex", "AddTriangle", "DrawTriangles", "Reconfigure", "Setup"}

\* C22: when the rasterizer was asked and accepted the batch, the write is over
\* with nothing of the software pipeline done: Run was not called, batch_id and
\* vs_output are what they were, no VSUnitLoop was called or pushed, g_state differs
\* from what it was in the trigger register alone (so the assembler is as it was),
\* and neither the geometry pipeline nor AddTriangle nor DrawTriangles was called.
C22_AcceleratedSkipsPipeline ==
    (DrawWritten /\ Accepted) =>
        /\ pc = "finished"
        /\ shader_runs = <<>>
        /\ batch_id = last.batch_id
        /\ vs_output = last.vs_output
        /\ workers = <<>>
        /\ g_state = [last.pre EXCEPT !.regs = g_state.regs]
        /\ \A id \in DOMAIN g_state.regs \cup DOMAIN last.pre.regs :
               id # last.id => Reg(g_state, id) = Reg(last.pre, id)
        /\ \A k \in 1..Len(calls) : calls[k].call \notin SoftwareCalls

\* An accepted List draw of 30 vertices over a cache that holds the previous batch.
C22_Witness ==
    /\ DrawWritten
    /\ Accepted
    /\ NumVertices(last.pre) = 30
    /\ last.pre.primitive_assembler.topology = "List"
    /\ batch_id = U32(0, 0, 0, 5)
    /\ vs_output # <<>>

DrawTrianglesCalls == {k \in 1..Len(calls) : calls[k].call = "DrawTriangles"}

\* C23: in a draw that is not accelerated, DrawTriangles is not called before the
\* write is over; when it is over every VSUnitLoop has ended, num_vertices vertices
\* or indices have been fed, and DrawTriangles was called once, after the last of
\* them.
C23_JoinedBeforeDrawTriangles ==
    DrawStarted =>
        /\ pc # "finished" => DrawTrianglesCalls = {}
        /\ pc = "finished" =>
               /\ \A t \in DOMAIN workers : workers[t].pc = "done"
               /\ Len(Fed) = NumVertices(g_state)
               /\ Cardinality(DrawTrianglesCalls) = 1
               /\ \A k \in 1..Len(calls) :
                      calls[k].call \in {"SubmitVertex", "SubmitIndex", "AddTriangle"}
                      => \A d \in DrawTrianglesCalls : k < d

\* A draw on two pool threads is over: both loops have ended, three vertices were
\* fed and DrawTriangles is the call before the last.
C23_Witness ==
    /\ DrawStarted
    /\ pc = "finished"
    /\ draw.vs_threads = 2
    /\ \A t \in {0, 1} : workers[t].pc = "done"
    /\ Len(Fed) = 3
    /\ calls[Len(calls) - 1].call = "DrawTriangles"

\* The last register write was a draw trigger that was not accelerated.
InDraw == DrawStarted /\ last.id \in {REG_trigger_draw, REG_trigger_draw_indexed}
ShadedNow(slot) ==
    Get(shader_runs, IF draw.is_indexed THEN slot ELSE slot + args.vertex_offset, 0) = 1

\* C24: in a draw that is not accelerated batch_id is the batch_id of before plus
\* one modulo 2^32, or 1 when that is 0, so it is never 0; when the increment gave 0
\* every tag that is not of this batch is 0; and an entry whose tag is batch_id was
\* tagged in this batch (its vertex was shaded in it), not in an earlier one.
C24_BatchIdAdvances ==
    InDraw =>
        /\ batch_id # ZeroWord
        /\ batch_id = IF Inc32(last.batch_id) = ZeroWord THEN ToWord(1)
                       ELSE Inc32(last.batch_id)
        /\ \A slot \in DOMAIN vs_output :
               /\ vs_output[slot].batch = batch_id => ShadedNow(slot)
               /\ Inc32(last.batch_id) = ZeroWord
                      => vs_output[slot].batch \in {ZeroWord, batch_id}

\* The second draw after the one whose increment overflowed: batch_id is 2, one
\* entry is tagged 2 and another still 1.
C24_Witness ==
    /\ InDraw
    /\ batch_id = ToWord(2)
    /\ last.batch_id = ToWord(1)
    /\ \E slot \in DOMAIN vs_output : vs_output[slot].batch = ToWord(2)
    /\ \E slot \in DOMAIN vs_output : vs_output[slot].batch = ToWord(1)

\* C25: with the pool threads and the calling thread kept running, every draw
\* that is dispatched (it is past the assertion on NeedIndexInput, whose failure
\* ends the process) comes to its end: the calling thread leaves each of its yield
\* loops and WritePicaReg returns after DrawTriangles, for every index array, on
\* the inline path and on the pool.
C25_DrawTerminates == (pc = "consume") ~> (pc = "finished")

\* A draw on two pool threads whose two indices are the same vertex is over, and
\* was not accelerated: one thread shaded the vertex, and the calling thread fed it
\* twice.
C25_Witness ==
    /\ InDraw
    /\ pc = "finished"
    /\ draw.vs_threads = 2
    /\ IndexedDraw
    /\ args.index_array[1] = args.index_array[2]
    /\ Len(Fed) = 2
    /\ DrawTrianglesCalls # {}

Triangles ==
    LET added == SelectSeq(calls, LAMBDA c : c.call = "AddTriangle")
    IN  [k \in 1..Len(added) |-> added[k].triangle]
Vertex(k) == Submissions[k].output

\* C26: in a draw that found the assembler empty in the Strip topology, the first
\* two vertices submitted emit no triangle and every later one emits one: after the
\* vertices A, B, C, D, E the triangles are (A, B, C), (C, B, D), (C, D, E), in
\* this order.
C26_StripTriangles ==
    (/\ InDraw
     /\ ~UseGsYes(last.pre)
     /\ last.pre.primitive_assembler.topology = "Strip"
     /\ IsEmpty(last.pre.primitive_assembler)) =>
        /\ Len(Triangles) = IF Len(Submissions) < 2 THEN 0 ELSE Len(Submissions) - 2
        /\ Len(Triangles) >= 1 => Triangles[1] = <<Vertex(1), Vertex(2), Vertex(3)>>
        /\ Len(Triangles) >= 2 => Triangles[2] = <<Vertex(3), Vertex(2), Vertex(4)>>
        /\ Len(Triangles) >= 3 => Triangles[3] = <<Vertex(3), Vertex(4), Vertex(5)>>

\* A Strip draw of five different vertices on an empty assembler is over, with its
\* three triangles.
C26_Witness ==
    /\ InDraw
    /\ pc = "finished"
    /\ ~IndexedDraw
    /\ last.pre.primitive_assembler.topology = "Strip"
    /\ IsEmpty(last.pre.primitive_assembler)
    /\ Len(Submissions) = 5
    /\ Triangles = <<<<Vertex(1), Vertex(2), Vertex(3)>>, <<Vertex(3), Vertex(2), Vertex(4)>>,
                     <<Vertex(3), Vertex(4), Vertex(5)>>>>
    /\ Vertex(1) # Vertex(3)

\* C27: after a write to restart_primitive the assembler holds no vertex and has
\* the topology it had; after a write to triangle_topology it holds no vertex and
\* has the topology of the register as the masked write leaves it; and in every
\* state the assembler holds 0, 1 or 2 vertices.
C27_AssemblerReset ==
    /\ Buffered(g_state.primitive_assembler) \in 0..2
    /\ (pc = "finished" /\ last.id = REG_restart_primitive) =>
           /\ Buffered(g_state.primitive_assembler) = 0
           /\ IsEmpty(g_state.primitive_assembler)
           /\ g_state.primitive_assembler.topology = last.pre.primitive_assembler.topology
    /\ (pc = "finished" /\ last.id = REG_triangle_topology) =>
           /\ Buffered(g_state.primitive_assembler) = 0
           /\ IsEmpty(g_state.primitive_assembler)
           /\ g_state.primitive_assembler.topology = TriangleTopology(g_state)
           /\ Reg(g_state, REG_triangle_topology)
                  = MergeMasked(Reg(last.pre, REG_triangle_topology), last.value,
                                expand_bits_to_bytes[last.mask])

\* restart_primitive was written on an assembler that held the two vertices of a
\* strip, and it holds none now.
C27_Witness ==
    /\ pc = "finished"
    /\ last.id = REG_restart_primitive
    /\ Buffered(last.pre.primitive_assembler) = 2
    /\ last.pre.primitive_assembler.topology = "Strip"
    /\ Buffered(g_state.primitive_assembler) = 0
    /\ g_state.primitive_assembler.topology = "Strip"

(***************************************************************************)
(* Claims on the observers of a register write (SpecImmediate)             *)
(***************************************************************************)

Observers == {"OnPicaRegWrite", "OnEvent"}
Observed == SelectSeq(calls, LAMBDA c : c.call \in Observers)
Unobserved == SelectSeq(calls, LAMBDA c : c.call \notin Observers)

TriggerWritten == last # NoCall /\ IsTriggerReg(last.id)
TriggerIndex == last.id - REG_command_buffer_trigger
\* The buffer the registers configure for a trigger: its first word in guest
\* memory and its length in words (addr and size are in units of 8 bytes).
BufferHead(index) == 2 * BitField(Reg(g_state, REG_command_buffer_addr + index), 0, 28)
BufferWords(index) == 2 * BitField(Reg(g_state, REG_command_buffer_size + index), 0, 20)
LastRead == cmd_log.writes[Len(cmd_log.writes)]

C30_Reset ==
    TriggerWritten =>
        g_state.cmd_list = [head_ptr |-> BufferHead(TriggerIndex),
                            current_ptr |-> BufferHead(TriggerIndex),
                            length |-> BufferWords(TriggerIndex)]

C30_Continue ==
    (TriggerWritten /\ pc \in {"loop", "extra"}) =>
        LET cl == g_state.cmd_list
        IN  \/ pc' = "fault" /\ ~Mapped(cl.head_ptr + (IF pc = "extra" THEN 0 ELSE 1))
            \/ /\ pc = "extra"
               /\ Len(cmd_log'.writes) = Len(cmd_log.writes) + 1
               /\ cmd_log'.writes[Len(cmd_log'.writes)].at = cl.head_ptr
               /\ last'.value = Deref(cl.head_ptr)
            \/ /\ pc = "loop" /\ cl.length > 0
               /\ cmd_log'.head = cl.head_ptr
               /\ cmd_log'.value_at = cl.head_ptr
               /\ last'.value = Deref(cl.head_ptr)
            \/ /\ pc = "loop" /\ cl.length <= 0
               /\ pc' = "done" /\ g_state' = g_state

C30_End ==
    pc = "done" =>
        g_state.cmd_list.current_ptr
            >= g_state.cmd_list.head_ptr + g_state.cmd_list.length

\* C30: a write to command_buffer.trigger[0] or [1] sets the head and the cursor
\* of the command list to the first word of the buffer that trigger's addr
\* register configures and the length to that buffer's size in words; the walk
\* in progress reads its next word, be it the next extra-data word of the
\* command that wrote the trigger or the value word of the next command, at the
\* new head, and it returns only when the cursor has reached the head + length
\* that the last trigger installed.
C30_TriggerResetsCursor == [](C30_Reset /\ C30_End) /\ [][C30_Continue]_vars

\* The extra-data word of a grouped write to trigger[0] was read at the head of
\* buffer 0, not after the header, and written to trigger[1].
C30_Witness ==
    /\ pc = "loop" /\ TriggerWritten /\ TriggerIndex = 1
    /\ Len(cmd_log.writes) = 2
    /\ cmd_log.writes[1].id = REG_command_buffer_trigger
    /\ cmd_log.value_at = 2
    /\ LastRead.at = 0 /\ LastRead.value = mem[1]

(***************************************************************************)
(* Claims on the resize of the vertex cache (SpecResize)                   *)
(***************************************************************************)

\* The pool threads, or the inline loop, and the calling thread are at work on
\* the batch.
BatchUnderWay == pc \in {"consume", "read"}
\* The entries of vs_output the threads at work stand at.
AccessedSlots ==
    {CachedVertex(args, draw.is_indexed, workers[t].index) :
        t \in {u \in DOMAIN workers : workers[u].pc # "done"}}
    \cup (IF draw.index < NumVertices(g_state)
          THEN {CachedVertex(args, draw.is_indexed, draw.index)} ELSE {})

C29_ResizedAtDispatch ==
    /\ pc = "trigger" => \A t \in DOMAIN workers : workers[t].pc = "done"
    /\ BatchUnderWay =>
          /\ batch_id = NextBatchId(last.batch_id)
          /\ vs_output_size =
                 IF ~IndexedDraw /\ last.vs_output_size < NumVertices(g_state)
                 THEN NumVertices(g_state) ELSE last.vs_output_size
          /\ \A slot \in AccessedSlots : slot < vs_output_size

C29_NotResizedUnderWay ==
    BatchUnderWay => vs_output_size' = vs_output_size /\ batch_id' = batch_id

ListLength == args.size \div 4

\* C31: while no command buffer trigger has moved the walk, every word of the
\* command read last (its value word, its header and each extra-data word read
\* so far) lies at an offset from the list head that is at least 0 and less than
\* the length of the list.
C31_ReadsWithinLength ==
    (pc \in {"loop", "extra", "done"} /\ cmd_log # NoCommand /\ ~jumped) =>
        /\ 0 <= cmd_log.value_at /\ cmd_log.value_at + 1 < ListLength
        /\ \A k \in 1..Len(cmd_log.writes) :
               0 <= cmd_log.writes[k].at /\ cmd_log.writes[k].at < ListLength

(***************************************************************************)
(* Claims on the completion of an immediate-mode vertex (SpecImmediate)    *)
(***************************************************************************)

\* The last write staged the third word of the last attribute of a vertex.
VertexCompleted ==
    /\ pc = "immediate" /\ WroteAttributeWord
    /\ nwrites % 3 = 0
    /\ (nwrites \div 3) % (MaxInputAttribIndex(g_state) + 1) = 0
ResetPending == last.pre.immediate.reset_geometry_pipeline

\* C32: the write that completes an immediate-mode vertex calls, in this order and
\* each once: the vertex shader on the assembled vertex; Reconfigure of the
\* geometry pipeline, only when the reset flag was set; the asserted NeedIndexInput;
\* Setup; SubmitVertex with the output of that shader run; DrawTriangles.  The reset
\* flag is clear afterwards.  A write that completes no vertex makes none of these
\* calls and leaves the flag as it was.
C32_ImmediateVertexOrder ==
    (pc = "immediate" /\ WroteAttributeWord) =>
        IF VertexCompleted
        THEN /\ Unobserved =
                  <<[call |-> "Run", input |-> g_state.immediate.input_vertex]>>
                  \o (IF ResetPending THEN <<[call |-> "Reconfigure"]>> ELSE <<>>)
                  \o <<[call |-> "NeedIndexInput"], [call |-> "Setup"],
                       [call |-> "SubmitVertex",
                        output |-> Run(g_state.immediate.input_vertex)],
                       [call |-> "DrawTriangles"],
                       [call |-> "NotifyPicaRegisterChanged", id |-> last.id]>>
             /\ ~g_state.immediate.reset_geometry_pipeline
        ELSE /\ Unobserved = <<[call |-> "NotifyPicaRegisterChanged", id |-> last.id]>>
             /\ g_state.immediate.reset_geometry_pipeline = ResetPending

\* The first vertex after the index write: the pipeline was reconfigured before the
\* vertex was submitted, and the draw came last.
C32_Witness ==
    /\ VertexCompleted /\ ResetPending
    /\ MaxInputAttribIndex(g_state) = 1
    /\ nwrites = 6
    /\ Len(Unobserved) = 7
    /\ Unobserved[2].call = "Reconfigure"
    /\ Unobserved[6].call = "DrawTriangles"

(***************************************************************************)
(* Claims on the reset of immediate-mode assembly (SpecAttribute)          *)
(***************************************************************************)

C33_Reset ==
    (pc = "attributes" /\ last.id = REG_vs_default_attributes_index) =>
        /\ g_state.immediate.current_attribute = 0
        /\ g_state.default_attr_counter = 0
        /\ g_state.immediate.reset_geometry_pipeline

C33_Reconfigure ==
    pc' = "attributes" =>
        LET completed == \E k \in 1..Len(calls') : calls'[k].call = "Run"
            reconfigured == {k \in 1..Len(calls') : calls'[k].call = "Reconfigure"}
            pending == last'.pre.immediate.reset_geometry_pipeline
        IN  /\ pending = g_state.immediate.reset_geometry_pipeline
            /\ Cardinality(reconfigured) = (IF completed /\ pending THEN 1 ELSE 0)
            /\ g_state'.immediate.reset_geometry_pipeline
                 <=> \/ last'.id = REG_vs_default_attributes_index
                     \/ pending /\ ~completed

\* C33: a write to vs_default_attributes_setup.index leaves the immediate-mode
\* cursor 0, the default-attribute staging counter 0 and the reset flag of the
\* geometry pipeline set.  A register write calls Reconfigure once when it completes
\* an immediate vertex while the flag is set, and not otherwise; the flag is set
\* after a write exactly when the write was to the index register, or the flag was
\* set before and the write completed no vertex.  So the pipeline is reconfigured
\* once, at the first vertex completed after an index write.
C33_IndexWriteResets == []C33_Reset /\ [][C33_Reconfigure]_vars

\* The second vertex completed since the index was written: the shader ran and the
\* pipeline was not reconfigured again.
C33_Witness ==
    /\ pc = "attributes" /\ WroteAttributeWord
    /\ nwrites = 6
    /\ RunCalls # {}
    /\ ~last.pre.immediate.reset_geometry_pipeline
    /\ \A k \in 1..Len(calls) : calls[k].call # "Reconfigure"

(***************************************************************************)
(* Claims on the index feed of the geometry pipeline (SpecDraw)            *)
(***************************************************************************)

\* The calls of the submission loop: all after Reconfigure and Setup.
LoopCalls == SelectSeq(calls, LAMBDA c : c.call \in {"SubmitIndex", "SubmitVertex"})
IndexFed == UseGsYes(g_state) /\ IndexedDraw /\ args.need_index

\* C34: in a draw with the geometry shader on, indexed, whose geometry pipeline
\* needs index input, the calls of the submission loop so far are, for the loop
\* indices 0, 1, ... in order, SubmitIndex of the vertex index read from the index
\* array, and no SubmitVertex; the controller never stands at the read of a cache
\* entry, and its next SubmitIndex waits for no tag of the cache.  A draw whose
\* pipeline needs index input gets past the assertion only when it is indexed.
C34_IndexFeed ==
    /\ (DrawStarted /\ IndexFed) =>
          /\ pc # "read"
          /\ Len(LoopCalls) = draw.index
          /\ \A k \in 1..Len(LoopCalls) :
                /\ LoopCalls[k].call = "SubmitIndex"
                /\ LoopCalls[k].index = k - 1
                /\ LoopCalls[k].vertex = args.index_array[k]
          /\ (pc = "consume" /\ draw.index < NumVertices(g_state) /\ InlineLoopOver)
                => ENABLED Consume
    /\ (DrawStarted /\ args.need_index) => IndexedDraw
    /\ pc = "aborted" <=> (last # NoCall /\ ~Accelerated /\ args.need_index /\ ~IndexedDraw)

\* Two indices were forwarded while no pool thread had tagged a cache entry yet.
C34_Witness ==
    /\ DrawStarted /\ IndexFed
    /\ draw.vs_threads = 2
    /\ draw.index = 2
    /\ Len(LoopCalls) = 2
    /\ \A t \in DOMAIN workers : workers[t].pc = "head" /\ workers[t].index = t
    /\ \A slot \in DOMAIN vs_output : vs_output[slot].batch # batch_id

(***************************************************************************)
(* Claims on program and swizzle words out of range (SpecProgram)          *)
(***************************************************************************)

\* The unit whose program or swizzle port the last call wrote, and the buffers of a
\* state that the two kinds of port load.
ProgramPortWritten(unit) == pc = "load" /\ IsProgramSetWordReg(unit, last.id)
SwizzlePortWritten(unit) == pc = "load" /\ IsSwizzleSetWordReg(unit, last.id)
ShaderBuffers(g) ==
    [u \in Units |-> [program_code |-> g[u].program_code,
                      program_code_dirty |-> g[u].program_code_dirty,
                      swizzle_data |-> g[u].swizzle_data,
                      swizzle_data_dirty |-> g[u].swizzle_data_dirty]]

\* C35: a write to a program port of a unit with the unit's program offset at or
\* above its limit (512 for the vertex unit, 4096 for the geometry unit), or to a
\* swizzle port with the swizzle offset at or above the buffer size, leaves the
\* program and swizzle words and the dirty flags of both units and the offset as
\* they were.  With the offset below the limit the word at the offset is the value
\* written, whatever the mask, and the offset is one more.
C35_OutOfRangeDropped ==
    \A unit \in Units :
        /\ ProgramPortWritten(unit) =>
             LET offset == Reg(last.pre, ProgramOffsetReg(unit))
                 limit == IF unit = "vs" THEN 512 ELSE 4096
             IN  IF GE32(offset, limit)
                 THEN /\ ShaderBuffers(g_state) = ShaderBuffers(last.pre)
                      /\ Reg(g_state, ProgramOffsetReg(unit)) = offset
                 ELSE /\ Get(g_state[unit].program_code, Lo16(offset), ZeroWord) = last.value
                      /\ Reg(g_state, ProgramOffsetReg(unit)) = Inc32(offset)
        /\ SwizzlePortWritten(unit) =>
             LET offset == Reg(last.pre, SwizzleOffsetReg(unit))
             IN  IF GE32(offset, 4096)
                 THEN /\ ShaderBuffers(g_state) = ShaderBuffers(last.pre)
                      /\ Reg(g_state, SwizzleOffsetReg(unit)) = offset
                 ELSE /\ Get(g_state[unit].swizzle_data, Lo16(offset), ZeroWord) = last.value
                      /\ Reg(g_state, SwizzleOffsetReg(unit)) = Inc32(offset)

\* A vertex-unit program word written at offset 512, after a word went in at 511:
\* it was dropped, and a masked write at that.
C35_Witness ==
    /\ ProgramPortWritten("vs")
    /\ last.mask = 5
    /\ Reg(last.pre, REG_vs_program_offset) = ToWord(512)
    /\ 511 \in DOMAIN g_state.vs.program_code
    /\ 512 \notin DOMAIN g_state.vs.program_code
    /\ Reg(g_state, REG_vs_program_offset) = ToWord(512)

(***************************************************************************)
(* Claims on the boolean uniforms (SpecWrite)                              *)
(***************************************************************************)

\* Bit k of the register word w.
RegisterBit(w, k) == (w[(k \div 8) + 1] \div 2 ^ (k % 8)) % 2 = 1
OtherUnit(unit) == IF unit = "vs" THEN "gs" ELSE "vs"

\* C36: after a write to the bool_uniforms register of a unit, byte b of the
\* register is the byte written where bit b of the mask is set and the old byte
\* elsewhere, boolean uniform i of the unit is bit i of that register value for
\* every i below 16, and the boolean uniforms of the other unit are as before.
C36_BoolUniformsFollowRegister ==
    \A unit \in Units :
        (pc \in {"rewrite", "written"} /\ last.id = BoolUniformsReg(unit)) =>
            LET w == Reg(g_state, last.id)
            IN  /\ \A b \in 0..3 :
                       w[b + 1] = IF (last.mask \div 2 ^ b) % 2 = 1 THEN last.value[b + 1]
                                  ELSE Reg(last.pre, last.id)[b + 1]
                /\ \A k \in 0..(BoolUniformCapacity - 1) :
                       g_state[unit].uniforms_b[k] <=> RegisterBit(w, k)
                /\ g_state[OtherUnit(unit)].uniforms_b = last.pre[OtherUnit(unit)].uniforms_b

\* A write of 0x12345678 to vs.bool_uniforms under mask 0x2 over 0xFFFFFFFF: the
\* low byte stays 0xFF, the second becomes 0x56, so uniform 8 is off and 9 is on.
C36_Witness ==
    /\ pc = "rewrite" /\ last.id = REG_vs_bool_uniforms
    /\ last.mask = 2 /\ last.value = U32(18, 52, 86, 120)
    /\ Reg(last.pre, last.id) = U32(255, 255, 255, 255)
    /\ g_state.vs.uniforms_b[0] /\ g_state.vs.uniforms_b[7]
    /\ ~g_state.vs.uniforms_b[8] /\ g_state.vs.uniforms_b[9]
    /\ last.pre.vs.uniforms_b[8]

(***************************************************************************)
(* Claims on the lock of a cache entry (SpecDraw)                          *)
(***************************************************************************)

\* The pool threads between test_and_set and lock.clear, and the entry each holds.
Holding == {t \in DOMAIN workers : workers[t].pc \in {"check", "run", "write", "tag", "unlock"}}
Held(t) == CachedVertex(args, TRUE, workers[t].index)

\* C37: in an indexed draw on pool threads no two threads are between the
\* test_and_set and the clear of the same entry, so at most one loads, shades and
\* writes it at a time; an entry is locked exactly while a thread is there; and
\* when the draw is over no entry is locked.
C37_EntryLockExcludes ==
    (DrawStarted /\ IndexedDraw /\ ~SingleThread) =>
        /\ \A t, u \in Holding : t # u => Held(t) # Held(u)
        /\ \A slot \in DOMAIN vs_output :
               vs_output[slot].lock <=> \E t \in Holding : Held(t) = slot
        /\ pc = "finished" => \A slot \in DOMAIN vs_output : ~vs_output[slot].lock

\* Every index of the batch names vertex 0: thread 0 holds its entry and is about
\* to write it, thread 1 found it locked at its only loop index and is done.
C37_Witness ==
    /\ DrawStarted /\ IndexedDraw
    /\ draw.vs_threads = 2
    /\ args.index_array = <<0, 0, 0>>
    /\ workers[0].pc = "write" /\ workers[0].index = 0
    /\ workers[1].pc = "done"
    /\ vs_output[0].lock
    /\ Get(shader_runs, 0, 0) = 1

(***************************************************************************)
(* Claims on the entries that carry the batch id (SpecDraw)                *)
(***************************************************************************)

Tagged(slot) == BatchUnderWay /\ slot \in DOMAIN vs_output /\ vs_output[slot].batch = batch_id

\* The threads that have a store to the output of a slot ahead of them.
Writers(slot) ==
    {t \in DOMAIN workers :
        /\ workers[t].pc \in (IF draw.is_indexed THEN {"run", "write"} ELSE {"head", "write"})
        /\ CachedVertex(args, draw.is_indexed, workers[t].index) = slot}

C38_NoWriter ==
    /\ \A slot \in DOMAIN vs_output : Tagged(slot) => Writers(slot) = {}
    /\ (pc = "read" /\ ~SingleThread) =>
           Tagged(CachedVertex(args, draw.is_indexed, draw.index))

C38_Kept ==
    \A slot \in DOMAIN vs_output :
        Tagged(slot) => /\ slot \in DOMAIN vs_output'
                        /\ vs_output'[slot].output = vs_output[slot].output

\* C38: while a batch is under way, an entry that carries batch_id has no thread
\* with a store to its output ahead of it and no step changes its output; the entry
\* the calling thread reads on a pooled draw is such an entry.
C38_TaggedEntryKept == []C38_NoWriter /\ [][C38_Kept]_vars

\* An indexed pooled draw that names vertex 0 twice: the entry is tagged and
\* unlocked, the calling thread reads it, and a thread on the pool has locked it
\* again for the second occurrence.
C38_Witness ==
    /\ DrawStarted /\ IndexedDraw /\ draw.vs_threads = 2
    /\ pc = "read" /\ draw.index = 0
    /\ args.index_array[1] = 0
    /\ Tagged(0)
    /\ \E t \in DOMAIN workers : workers[t].pc = "check" /\ Held(t) = 0

(***************************************************************************)
(* Claims on the bounds of the cache accesses (SpecResize)                 *)
(***************************************************************************)

\* The loop indices thread t of the batch is given: t, t + W, t + 2W, ...  The loop
\* index is an unsigned int; a batch within W of 2^32 vertices, where index += W
\* would wrap, is beyond what guest memory and the cache can hold and is not drawn
\* here.
Owner(index) == index % NumThreads
\* Thread t has loaded and shaded the vertex of its loop index.
Shaded(t) == workers[t].pc \in {"write", "tag", "unlock"}
\* The loop indices a thread has been at and left, or has shaded.
Passed(t) ==
    {index \in 0..workers[t].index :
        /\ index < NumVertices(g_state)
        /\ Owner(index) = t
        /\ index < workers[t].index \/ Shaded(t)}

C39_InBounds ==
    BatchUnderWay =>
        /\ vs_output_size >= InitialCacheSize
        /\ vs_output_size >= last.vs_output_size
        /\ \A slot \in AccessedSlots \cup DOMAIN vs_output :
               /\ slot < vs_output_size
               /\ IndexedDraw => slot <= 65535
        /\ ~IndexedDraw => NumVertices(g_state) <= vs_output_size
        /\ DOMAIN workers = 0..(NumThreads - 1)
        /\ \A t \in DOMAIN workers :
               /\ Owner(workers[t].index) = t
               /\ workers[t].pc = "done" <=> workers[t].index >= NumVertices(g_state)
        /\ ~IndexedDraw =>
               /\ \A t \in DOMAIN workers : \A index \in Passed(t) :
                      Get(shader_runs, VertexIndex(args, FALSE, index), 0) = 1
               /\ \A vertex \in DOMAIN shader_runs :
                      \E t \in DOMAIN workers : \E index \in Passed(t) :
                          vertex = VertexIndex(args, FALSE, index)

C39_Strided ==
    BatchUnderWay =>
        \A t \in DOMAIN workers :
            /\ t \in DOMAIN workers'
            /\ workers'[t].index \in {workers[t].index, workers[t].index + NumThreads}

\* C39: while a batch is under way the cache has at least the entries it was
\* constructed with and at least those it had before the draw; every entry a
\* thread stands at or has written is inside it, at a vertex index of at most
\* 0xFFFF for an indexed draw and at a loop index below num_vertices, which the
\* cache covers, for a non-indexed one; thread t of W starts at loop index t,
\* moves on by W, and is done when its index reaches num_vertices, so a loop index
\* belongs to thread index % W alone; and in a non-indexed draw the vertex of a
\* loop index has been shaded once when its thread is past it and not otherwise.
C39_AccessesInBounds == []C39_InBounds /\ [][C39_Strided]_vars

\* A non-indexed batch of 0x10001 vertices on two pool threads and a cache grown
\* to hold it: thread 0 is at loop index 2 after shading 0, thread 1 has shaded 1.
C39_Witness ==
    /\ BatchUnderWay /\ ~IndexedDraw
    /\ draw.vs_threads = 2
    /\ NumVertices(g_state) = InitialCacheSize + 1
    /\ vs_output_size = InitialCacheSize + 1
    /\ workers[0].index = 2 /\ workers[0].pc = "head"
    /\ workers[1].index = 1 /\ workers[1].pc = "tag"
    /\ Passed(0) = {0} /\ Passed(1) = {1}
    /\ DOMAIN shader_runs = {1, 2}

(***************************************************************************)
(* SpecStaging: words written to the set_value ports of both units and to  *)
(* the default-attribute port in any order, with the format bit of either  *)
(* uniform_setup switched and the default-attribute index written between  *)
(* words at will.                                                          *)
(***************************************************************************)

MaxStagingWrites == 8

InitStaging ==
    /\ g_state = InitState
    /\ mem = <<>>
    /\ pc = "staging"
    /\ header = NoHeader
    /\ i = 0
    /\ cmd_log = NoCommand
    /\ last = NoCall
    /\ calls = <<>>
    /\ pica_tracing = FALSE
    /\ g_debug_context = FALSE
    /\ jumped = FALSE
    /\ args = [unit |-> "vs", value |-> ZeroWord]
    /\ nwrites = 0
    /\ DrawIdle

\* WritePicaReg(uniform_setup.set_value[0], value, 0xF) of either unit
StageUniformWord ==
    /\ pc = "staging"
    /\ nwrites < MaxStagingWrites
    /\ \E unit \in Units :
         /\ DoWrite(g_state, UniformSetValueReg(unit), U32(18, 52, 86, 120), 15)
         /\ args' = [unit |-> unit, value |-> U32(18, 52, 86, 120)]
    /\ nwrites' = nwrites + 1
    /\ UNCHANGED drawvars
    /\ UNCHANGED <<mem, pc, header, i, cmd_log, pica_tracing, g_debug_context, jumped>>

\* WritePicaReg(uniform_setup, the other format, 0x8) of either unit
StageSwitchFormat ==
    /\ pc = "staging"
    /\ nwrites < MaxStagingWrites
    /\ \E unit \in Units :
         LET setupw == Reg(g_state, UniformSetupReg(unit))
         IN  /\ DoWrite(g_state, UniformSetupReg(unit),
                        IF IsFloat32(setupw) THEN ZeroWord ELSE U32(128, 0, 0, 0), 8)
             /\ args' = [unit |-> unit, value |-> ZeroWord]
    /\ nwrites' = nwrites + 1
    /\ UNCHANGED drawvars
    /\ UNCHANGED <<mem, pc, header, i, cmd_log, pica_tracing, g_debug_context, jumped>>

\* WritePicaReg(vs_default_attributes_setup.set_value[0], value, 0xF)
StageAttributeWord ==
    /\ pc = "staging"
    /\ nwrites < MaxStagingWrites
    /\ DoWrite(g_state, REG_vs_default_attributes_set_value, U32(18, 52, 86, 120), 15)
    /\ nwrites' = nwrites + 1
    /\ UNCHANGED drawvars
    /\ UNCHANGED <<mem, pc, header, i, cmd_log, pica_tracing, g_debug_context, jumped, args>>

\* WritePicaReg(vs_default_attributes_setup.index, 0 or 15, 0xF)
StageAttributeIndex ==
    /\ pc = "staging"
    /\ nwrites < MaxStagingWrites
    /\ \E index \in {0, ImmediateIndex} :
         DoWrite(g_state, REG_vs_default_attributes_index, ToWord(index), 15)
    /\ nwrites' = nwrites + 1
    /\ UNCHANGED drawvars
    /\ UNCHANGED <<mem, pc, header, i, cmd_log, pica_tracing, g_debug_context, jumped, args>>

NextStaging ==
    StageUniformWord \/ StageSwitchFormat \/ StageAttributeWord \/ StageAttributeIndex

SpecStaging == InitStaging /\ [][NextStaging]_vars

(***************************************************************************)
(* Claims on the staging counters (SpecStaging)                            *)
(***************************************************************************)

\* The last write appended a word to the staging buffer of a unit, or to that of
\* the default attributes.
UniformAppended(unit) == last # NoCall /\ last.id = UniformSetValueReg(unit)
AttributeAppended == last # NoCall /\ last.id = REG_vs_default_attributes_set_value

\* C40: after any writes, each unit's float staging counter is in 0..3 and the
\* default-attribute staging counter is in 0..2, so the next append is inside the
\* buffer of 4 and of 3 words; and an append stored its word at the place the
\* counter gave before it, inside the buffer.
C40_StagingCountersInRange ==
    /\ \A unit \in Units :
          /\ g_state[FloatRegsCounter(unit)] \in 0..3
          /\ Len(g_state[UniformWriteBuffer(unit)]) = 4
          /\ UniformAppended(unit) =>
                /\ last.pre[FloatRegsCounter(unit)] \in 0..3
                /\ g_state[UniformWriteBuffer(unit)][last.pre[FloatRegsCounter(unit)] + 1]
                       = last.value
    /\ g_state.default_attr_counter \in 0..2
    /\ Len(g_state.default_attr_write_buffer) = 3
    /\ AttributeAppended =>
          /\ last.pre.default_attr_counter \in 0..2
          /\ g_state.default_attr_write_buffer[last.pre.default_attr_counter + 1] = last.value

\* The vertex unit was switched to the packed format with three words staged in
\* the 32-bit format, and the next word was appended at place 3 and flushed; the
\* default-attribute buffer holds two words.
C40_Witness ==
    /\ UniformAppended("vs")
    /\ last.pre.vs_float_regs_counter = 3
    /\ ~IsFloat32(Reg(last.pre, REG_vs_uniform_setup))
    /\ g_state.vs_float_regs_counter = 0
    /\ g_state.default_attr_counter = 2

====
